---- MODULE Spec2Model ----
(***************************************************************************)
(* Verification model of the orchestration-kit control plane.              *)
(*                                                                         *)
(* Part I   - the dashboard index: event-stream parsing (parsing.py), the  *)
(*            SQLite upserts and the reindex (indexing.py), the reindex    *)
(*            entry points (cli.py, server.py), the registry (registry.py) *)
(*            and kit.gc (mcp/server.py).                                  *)
(* Part II  - the writers of the JSON state files.                         *)
(* Part III - the cloud run launcher (tools/cloud/remote.py).              *)
(***************************************************************************)
EXTENDS Integers, Sequences, FiniteSets, TLC

\* SQL NULL / Python None of a text column or event field
NULL == "NULL"
\* SQL NULL / Python None of an integer column or event field (ts, exit_code, pid)
NONE == 0 - 1

(***************************************************************************)
(* Bounds of the model                                                     *)
(***************************************************************************)
\* total number of event lines written to all events.jsonl files
MaxEvents == 2
\* number of clock ticks
MaxTicks == 2

(***************************************************************************)
(* Program constants                                                       *)
(***************************************************************************)
\* kit.gc: a running row without pid is stale when older than this many seconds
StaleSeconds == 7200
\* kit.gc: the exit code written to a reaped row
ReapedExitCode == 137
\* seconds per clock tick: two ticks are more than StaleSeconds, one is less
TickSeconds == (StaleSeconds \div 2) + 1

\* the host the control plane runs on (socket.gethostname()) and another one
LocalHost == "local"
RemoteHost == "remote"

Projects == {"p1", "p2"}
\* the project of the control plane's own kit root (seeded when the registry is empty)
SeedProject == "p1"
\* run directories in sorted (directory listing) order, and the project whose
\* runs/ directory holds each of them
RunOrder == <<"r1", "r2", "r3">>
RunIds == {RunOrder[i] : i \in 1..Len(RunOrder)}
ProjectOf(r) == IF r = "r3" THEN "p2" ELSE "p1"
RequestIds == {"rq1"}
\* pid recorded by the run_started events of the model
Pids == {1}
\* the manifest path the events and the manifests/ directory scan name
ManifestFile == "manifest.json"
\* a manifest path an event may name where no file exists
MissingManifestFile == "final.json"

VARIABLES
  events,       \* events[r]: the lines of runs/<r>/events.jsonl, in file order
  manifests,    \* manifests[r]: metadata of the run's manifest file, or NoManifest
  alive,        \* the pids for which os.kill(pid, 0) succeeds
  now,          \* the wall clock, in seconds
  registry,     \* projects.json: a sequence of project entries
  dbProjects,   \* projects table: project_id -> row
  dbRuns,       \* runs table: run_id -> row (primary key (project_id, run_id))
  dbRequests,   \* requests table: <<project_id, request_id>> -> row
  lastOp        \* the last operation executed and what it returned

idxVars == <<events, manifests, alive, now, registry, dbProjects, dbRuns, dbRequests, lastOp>>

VARIABLES
  disk,         \* disk[f]: the state file f at its final path
  temp,         \* temp[f]: the mkstemp file beside f that a writer is filling
  writer,       \* writer[f]: the save call in progress on f, if any
  saved,        \* saved[f]: what the last save call on f found and meant to write
  writes        \* number of save calls started

fileVars == <<disk, temp, writer, saved, writes>>

VARIABLES
  call,         \* call[c]: the position and the arguments of the c-th call of run()
  instances,    \* the backend's instances: instance_id -> tags and state
  runState,     \* the global cloud run state files: run_id -> state
  projectState, \* active_runs of the project's .kit/cloud-state.json
  exitCodes     \* the exit_code markers in S3: run_id -> code

VARIABLES
  prov,         \* prov[p]: the position and arguments of provisioner p's call of provision()
  ec2Tokens,    \* the run_ids whose client token EC2 still remembers
  provisions    \* number of provision() calls started

provVars == <<prov, ec2Tokens, provisions>>

VARIABLES
  hour,         \* the fleet clock: hours since the start
  hourTicks,    \* number of times the fleet clock advanced
  reaps,        \* number of reap() calls made
  reapLog       \* the arguments and the returned action list of the last reap() call

reapVars == <<hour, hourTicks, reaps, reapLog>>

VARIABLES
  batch,        \* the call of launch_batch: its position, arguments and locals
  batchFile     \* the batch state file: the state saved last, or NoBatchFile

batchVars == <<batch, batchFile>>

VARIABLES
  exchange,     \* the request sent last and what each transport answered to it
  stdioServing, \* whether the loop of run_stdio is still reading lines
  thread,       \* thread[t]: the call of call_tool that handler thread t is in
  lock,         \* the holder of the facade's _lock, or NULL
  background,   \* the facade's _background: run_id -> state of the child process
  signals       \* the run_ids whose child process was sent a signal

mcpVars == <<exchange, stdioServing, thread, lock, background, signals>>

VARIABLES
  detail,       \* the call of run_detail_payload in progress and its locals
  gcCall        \* the call of _tool_kit_gc in progress: the rows it selected

dashVars == <<detail, gcCall>>

\* the state of the operations on launched runs
opsVars == <<reapVars, batchVars, mcpVars, dashVars>>

\* the state of the fleet operations other than run()
fleetVars == <<provVars, opsVars>>

cloudVars == <<call, instances, runState, projectState, exitCodes, fleetVars>>

vars == <<idxVars, fileVars, cloudVars>>

(***************************************************************************)
(* I.1  Event and manifest parsing (dashboard/parsing.py)                  *)
(***************************************************************************)
NoManifest == [exists |-> FALSE]

\* One JSONL event object.  A field that is absent or of the wrong type in the
\* line is NULL / NONE here: parse_run tests every field with isinstance.
Event(name, ts, f) ==
  [event |-> name, ts |-> ts,
   parent_run_id |-> f.parent_run_id, kit |-> f.kit, host |-> f.host, pid |-> f.pid,
   exit_code |-> f.exit_code, manifest_path |-> f.manifest_path,
   request_id |-> f.request_id, status |-> f.status,
   from_kit |-> f.from_kit, child_run_id |-> f.child_run_id]

NoFields ==
  [parent_run_id |-> NULL, kit |-> NULL, host |-> NULL, pid |-> NONE,
   exit_code |-> NONE, manifest_path |-> NULL,
   request_id |-> NULL, status |-> NULL, from_kit |-> NULL, child_run_id |-> NULL]

\* the run record parse_run starts from
InitialRun(p, r) ==
  [project_id |-> p, run_id |-> r, parent_run_id |-> NULL, kit |-> NULL,
   started_at |-> NONE, finished_at |-> NONE, exit_code |-> NONE, status |-> NULL,
   manifest_path |-> NULL, host |-> NULL, pid |-> NONE]

\* x if the event carries it, else the value folded so far
Keep(x, old) == IF x = NULL THEN old ELSE x
KeepInt(x, old) == IF x = NONE THEN old ELSE x

\* the run_started branch
FoldRunStarted(run, e) ==
  [run EXCEPT !.parent_run_id = e.parent_run_id,
              !.kit = Keep(e.kit, run.kit),
              !.started_at = KeepInt(e.ts, run.started_at),
              !.host = Keep(e.host, run.host),
              !.pid = KeepInt(e.pid, run.pid)]

\* one iteration of the event loop of parse_run, on the run record
FoldRunEvent(run, e) ==
  CASE e.event = "run_started" -> FoldRunStarted(run, e)
    [] e.event = "phase_started" -> [run EXCEPT !.kit = Keep(e.kit, run.kit)]
    [] e.event = "phase_finished" -> [run EXCEPT !.exit_code = KeepInt(e.exit_code, run.exit_code)]
    [] e.event = "manifest_written" ->
         [run EXCEPT !.manifest_path = Keep(e.manifest_path, run.manifest_path)]
    [] e.event = "run_finished" ->
         [run EXCEPT !.finished_at = KeepInt(e.ts, run.finished_at),
                     !.exit_code = KeepInt(e.exit_code, run.exit_code),
                     !.manifest_path = Keep(e.manifest_path, run.manifest_path),
                     !.host = Keep(e.host, run.host),
                     !.pid = KeepInt(e.pid, run.pid)]
    [] OTHER -> run

RECURSIVE FoldRun(_, _)
FoldRun(run, evs) ==
  IF evs = <<>> THEN run ELSE FoldRun(FoldRunEvent(run, Head(evs)), Tail(evs))

\* manifest path fallback: the first file of manifests/*.json
ManifestFallback(run, meta) ==
  IF run.manifest_path = NULL /\ meta.exists
  THEN [run EXCEPT !.manifest_path = ManifestFile] ELSE run

\* manifest reconciliation: the metadata of the file manifest_path names (none
\* when no file is there) fills the fields that are still None; host and pid
\* of the metadata overwrite
ReconcileManifest(run, meta) ==
  IF run.manifest_path # ManifestFile \/ ~meta.exists THEN run
  ELSE [run EXCEPT
          !.parent_run_id = IF run.parent_run_id = NULL THEN meta.parent_run_id ELSE @,
          !.kit = IF run.kit = NULL THEN meta.kit ELSE @,
          !.started_at = IF run.started_at = NONE THEN meta.started_at ELSE @,
          !.finished_at = IF run.finished_at = NONE THEN meta.finished_at ELSE @,
          !.exit_code = IF run.exit_code = NONE THEN meta.exit_code ELSE @,
          !.host = Keep(meta.host, @),
          !.pid = KeepInt(meta.pid, @)]

\* status derivation
DeriveStatus(run) ==
  [run EXCEPT !.status = IF run.finished_at = NONE THEN "running"
                         ELSE IF run.exit_code = 0 THEN "ok" ELSE "failed"]

\* the run record of parse_run
ParseRun(p, r, evs, meta) ==
  DeriveStatus(ReconcileManifest(ManifestFallback(FoldRun(InitialRun(p, r), evs), meta), meta))

\* the request record requests.setdefault creates
InitialRequest(p, r, q) ==
  [project_id |-> p, request_id |-> q, parent_run_id |-> r, child_run_id |-> NULL,
   from_kit |-> NULL, status |-> NULL, enqueued_ts |-> NONE, completed_ts |-> NONE]

IsRequestEvent(e) ==
  e.event \in {"request_enqueued", "request_completed"} /\ e.request_id # NULL

\* variant of FoldRequestEvent that never folds the event's status
FoldRequestEvent_noStatus(rec, e) ==
  LET base == [rec EXCEPT !.child_run_id = Keep(e.child_run_id, @),
                          !.from_kit = Keep(e.from_kit, @)]
  IN IF e.event = "request_enqueued"
     THEN [base EXCEPT !.enqueued_ts = KeepInt(e.ts, @)]
     ELSE [base EXCEPT !.completed_ts = KeepInt(e.ts, @)]

\* the request branch of the event loop, on the record of e.request_id
FoldRequestEvent(rec, e) ==
  LET base == [rec EXCEPT !.child_run_id = Keep(e.child_run_id, @),
                          !.from_kit = Keep(e.from_kit, @),
                          !.status = Keep(e.status, @)]
  IN IF e.event = "request_enqueued"
     THEN [base EXCEPT !.enqueued_ts = KeepInt(e.ts, @)]
     ELSE [base EXCEPT !.completed_ts = KeepInt(e.ts, @)]

RECURSIVE FoldRequest(_, _, _)
FoldRequest(rec, q, evs) ==
  IF evs = <<>> THEN rec
  ELSE LET e == Head(evs)
       IN FoldRequest(IF IsRequestEvent(e) /\ e.request_id = q THEN FoldRequestEvent(rec, e) ELSE rec,
                      q, Tail(evs))

\* the request records of parse_run: one per request_id seen in the stream
ParseRequests(p, r, evs) ==
  LET seen == {evs[i].request_id : i \in {j \in 1..Len(evs) : IsRequestEvent(evs[j])}}
  IN [q \in seen |-> FoldRequest(InitialRequest(p, r, q), q, evs)]


(***************************************************************************)
(* I.2  Project registry (dashboard/registry.py)                           *)
(***************************************************************************)
Labels == {"a", "b"}
\* position of a label in the order of str.lower()
LabelRank(l) == IF l = "" THEN 0 ELSE IF l = "a" THEN 1 ELSE 2

\* list.sort(key=label.lower()): a stable insertion sort
RECURSIVE InsertSorted(_, _)
InsertSorted(sorted, item) ==
  IF sorted = <<>> THEN <<item>>
  ELSE IF LabelRank(item.label) < LabelRank(Head(sorted).label)
       THEN <<item>> \o sorted
       ELSE <<Head(sorted)>> \o InsertSorted(Tail(sorted), item)

RECURSIVE SortByLabel(_)
SortByLabel(items) ==
  IF items = <<>> THEN <<>>
  ELSE InsertSorted(SortByLabel(SubSeq(items, 1, Len(items) - 1)), items[Len(items)])

RegistryIds(reg) == {reg[i].project_id : i \in 1..Len(reg)}

\* load_registry: the entries of the file that have a non-empty project_id,
\* roots and label; every other entry is skipped
load_registry(file) == SelectSeq(file, LAMBDA item : item.label # "")

\* upsert_registry_project: the list it saves.  The label is the resolved
\* one: the stripped --label, or the name of the project root if that is
\* blank, which is "" for the root directory
upsert_registry_project(reg, p, label) ==
  LET projects == load_registry(reg)
      record == [project_id |-> p, label |-> label]
      updated == [i \in 1..Len(projects) |->
                    IF projects[i].project_id = p THEN record ELSE projects[i]]
  IN SortByLabel(IF p \in RegistryIds(projects) THEN updated ELSE Append(updated, record))

\* remove_registry_project: the file after the call, which is saved only if
\* an entry was filtered out
remove_registry_project(reg, p) ==
  LET projects == load_registry(reg)
      filtered == SelectSeq(projects, LAMBDA item : item.project_id # p)
  IN  IF Len(filtered) = Len(projects) THEN reg ELSE filtered

\* label given to the seeded project (the name of its project root)
SeedLabel == "a"

\* maybe_seed_registry: the registry after the call (seeded when it was empty)
maybe_seed_registry(reg) ==
  IF load_registry(reg) # <<>> THEN reg
  ELSE upsert_registry_project(reg, SeedProject, SeedLabel)

(***************************************************************************)
(* I.3  Index store writes (dashboard/indexing.py)                         *)
(***************************************************************************)
\* the three tables as one value
Db == [projects |-> dbProjects, runs |-> dbRuns, requests |-> dbRequests]

\* f with key k bound to v
Put(f, k, v) == [x \in (DOMAIN f) \cup {k} |-> IF x = k THEN v ELSE f[x]]
\* f without the keys in dropped
Without(f, dropped) == [x \in (DOMAIN f) \ dropped |-> f[x]]
\* the keys of table t whose project_id is in ps
KeysOf(t, ps) == {k \in DOMAIN t : k[1] \in ps}

\* INSERT ... ON CONFLICT(project_id) DO UPDATE SET <every column> = excluded
InsertProject(db, proj) ==
  [db EXCEPT !.projects = Put(@, proj.project_id, [project_id |-> proj.project_id, label |-> proj.label])]

\* DELETE FROM runs / requests WHERE project_id = p
DeleteProjectRows(db, p) ==
  [db EXCEPT !.runs = Without(@, KeysOf(@, {p})),
             !.requests = Without(@, KeysOf(@, {p}))]

\* plain INSERT INTO runs
InsertRun(runs, run) == Put(runs, <<run.project_id, run.run_id>>, run)

\* COALESCE(excluded.c, c)
Coalesce(new, old) == IF new = NULL THEN old ELSE new
CoalesceInt(new, old) == IF new = NONE THEN old ELSE new

\* the DO UPDATE SET clause of _upsert_run
UpsertRunUpdate(old, run) ==
  [project_id |-> old.project_id,
   run_id |-> old.run_id,
   parent_run_id |-> run.parent_run_id,
   kit |-> Coalesce(run.kit, old.kit),
   started_at |-> CoalesceInt(run.started_at, old.started_at),
   finished_at |-> CoalesceInt(run.finished_at, old.finished_at),
   exit_code |-> CoalesceInt(run.exit_code, old.exit_code),
   status |-> run.status,
   manifest_path |-> Coalesce(run.manifest_path, old.manifest_path),
   host |-> Coalesce(run.host, old.host),
   pid |-> CoalesceInt(run.pid, old.pid)]

\* _upsert_run: INSERT ... ON CONFLICT(project_id, run_id) DO UPDATE
UpsertRun(runs, run) ==
  LET k == <<run.project_id, run.run_id>>
  IN IF k \in DOMAIN runs THEN Put(runs, k, UpsertRunUpdate(runs[k], run)) ELSE Put(runs, k, run)

\* the DO UPDATE SET clause of _insert_request: every column = excluded
InsertRequestUpdate(old, rec) ==
  [project_id |-> old.project_id,
   request_id |-> old.request_id,
   parent_run_id |-> rec.parent_run_id,
   child_run_id |-> rec.child_run_id,
   from_kit |-> rec.from_kit,
   status |-> rec.status,
   enqueued_ts |-> rec.enqueued_ts,
   completed_ts |-> rec.completed_ts]

\* _insert_request: INSERT ... ON CONFLICT(project_id, request_id) DO UPDATE
InsertRequest(requests, rec) ==
  LET k == <<rec.project_id, rec.request_id>>
  IN IF k \in DOMAIN requests THEN Put(requests, k, InsertRequestUpdate(requests[k], rec))
     ELSE Put(requests, k, rec)

\* "for request in requests: _insert_request(conn, request)"
RECURSIVE InsertRequests(_, _)
InsertRequests(requests, reqs) ==
  IF DOMAIN reqs = {} THEN requests
  ELSE LET q == CHOOSE x \in DOMAIN reqs : TRUE
       IN InsertRequests(InsertRequest(requests, reqs[q]), [x \in (DOMAIN reqs) \ {q} |-> reqs[x]])

\* the run directories of project p that hold an events.jsonl, sorted
RunRoots(p) == SelectSeq(RunOrder, LAMBDA r : ProjectOf(r) = p /\ events[r] # <<>>)

\* the inner loop of index_projects over the run roots of one project
RECURSIVE IndexRuns(_, _, _)
IndexRuns(db, p, roots) ==
  IF roots = <<>> THEN db
  ELSE LET r == Head(roots)
           run == ParseRun(p, r, events[r], manifests[r])
           reqs == ParseRequests(p, r, events[r])
       IN IndexRuns([db EXCEPT !.runs = InsertRun(@, run),
                               !.requests = InsertRequests(@, reqs)],
                    p, Tail(roots))

\* the loop of index_projects over the projects
RECURSIVE IndexEach(_, _)
IndexEach(db, projs) ==
  IF projs = <<>> THEN db
  ELSE LET proj == Head(projs)
           cleared == DeleteProjectRows(InsertProject(db, proj), proj.project_id)
       IN IndexEach(IndexRuns(cleared, proj.project_id, RunRoots(proj.project_id)), Tail(projs))

\* the stale-project cleanup of index_projects
CleanupStale(db, projs) ==
  LET active == RegistryIds(projs)
      stale == (DOMAIN db.projects) \ active
  IN [projects |-> Without(db.projects, stale),
      runs |-> Without(db.runs, KeysOf(db.runs, stale)),
      requests |-> Without(db.requests, KeysOf(db.requests, stale))]

\* variant of index_projects that cleans up whatever the flag says
index_projects_alwaysCleanup(db, projs, cleanup_stale_projects) ==
  IndexEach(CleanupStale(db, projs), projs)

\* index_projects(projects, cleanup_stale_projects): the tables it commits
index_projects(db, projs, cleanup_stale_projects) ==
  IndexEach(IF cleanup_stale_projects THEN CleanupStale(db, projs) ELSE db, projs)

\* upsert_single_run on run directory r: the tables it commits
upsert_single_run(db, p, r) ==
  [db EXCEPT !.runs = UpsertRun(@, ParseRun(p, r, events[r], manifests[r])),
             !.requests = InsertRequests(@, ParseRequests(p, r, events[r]))]


(***************************************************************************)
(* I.4  Reindex entry points and kit.gc                                    *)
(***************************************************************************)
\* "prepared = [p for p in prepared if p["project_id"] == project_id]"
FilterProjects(reg, project_id) ==
  IF project_id = NULL THEN reg ELSE SelectSeq(reg, LAMBDA item : item.project_id = project_id)

\* cmd_index (dashboard/cli.py): the registry and the tables after "dashboard index"
cmd_index(reg, db, project_id) ==
  LET seeded == maybe_seed_registry(reg)
      prepared == FilterProjects(load_registry(seeded), project_id)
  IN [registry |-> seeded,
      db |-> IF prepared = <<>> THEN db ELSE index_projects(db, prepared, project_id = NULL),
      called |-> prepared # <<>>,
      indexed |-> RegistryIds(prepared),
      cleanup |-> (project_id = NULL)]

\* cmd_serve (dashboard/cli.py): the index it seeds before serving
cmd_serve(reg, db, project_id) ==
  LET seeded == maybe_seed_registry(reg)
      prepared == FilterProjects(load_registry(seeded), project_id)
  IN [registry |-> seeded,
      db |-> IF prepared # <<>> THEN index_projects(db, prepared, project_id = NULL) ELSE db,
      called |-> prepared # <<>>,
      indexed |-> RegistryIds(prepared),
      cleanup |-> (project_id = NULL)]

\* DashboardHandler.do_POST /api/refresh (dashboard/server.py)
api_refresh(reg, db, project_id) ==
  LET seeded == maybe_seed_registry(reg)
      prepared == FilterProjects(load_registry(seeded), project_id)
  IN [registry |-> seeded,
      db |-> index_projects(db, prepared, project_id = NULL),
      called |-> TRUE,
      indexed |-> RegistryIds(prepared),
      cleanup |-> (project_id = NULL)]

\* variant of GcReason without the liveness probe of the recorded pid
GcReason_ancientOnly(row) ==
  IF row.started_at # NONE /\ now - row.started_at > StaleSeconds
     /\ (row.pid = NONE \/ row.pid = 0)
  THEN "no_pid_ancient"
  ELSE NULL

\* kit.gc: the reason computed for one running row, NULL when the row is skipped
GcReason(row) ==
  IF row.pid # NONE /\ row.pid # 0 /\ row.host = LocalHost /\ row.pid \notin alive
  THEN "pid_dead"
  ELSE IF row.started_at # NONE /\ now - row.started_at > StaleSeconds
          /\ (row.pid = NONE \/ row.pid = 0)
       THEN "no_pid_ancient"
       ELSE NULL

\* kit.gc: the UPDATE applied to one stale row
GcMarkFailed(row) ==
  [row EXCEPT !.status = "failed", !.exit_code = ReapedExitCode, !.finished_at = now]

\* kit.gc step 2: the stale entries among the running rows.  The order of the
\* returned list is the table order of the SELECT, not modelled: a set.
GcStale(runs) ==
  {[project_id |-> k[1], run_id |-> k[2], pid |-> runs[k].pid, host |-> runs[k].host,
    reason |-> GcReason(runs[k])] :
     k \in {x \in DOMAIN runs : runs[x].status = "running" /\ GcReason(runs[x]) # NULL}}

\* variant of tool_kit_gc that reindexes only when it is going to write
tool_kit_gc_noDryReindex(reg, db, dry_run) ==
  LET indexed == IF dry_run THEN [registry |-> reg, db |-> db] ELSE cmd_index(reg, db, NULL)
      stale == GcStale(indexed.db.runs)
      keys == {<<e.project_id, e.run_id>> : e \in stale}
      marked == [k \in DOMAIN indexed.db.runs |->
                   IF k \in keys THEN GcMarkFailed(indexed.db.runs[k]) ELSE indexed.db.runs[k]]
  IN [registry |-> indexed.registry,
      db |-> IF dry_run THEN indexed.db ELSE [indexed.db EXCEPT !.runs = marked],
      stale_runs |-> stale]

\* _tool_kit_gc: registry and tables after the call, and the stale_runs returned
tool_kit_gc(reg, db, dry_run) ==
  LET indexed == cmd_index(reg, db, NULL)
      stale == GcStale(indexed.db.runs)
      keys == {<<e.project_id, e.run_id>> : e \in stale}
      marked == [k \in DOMAIN indexed.db.runs |->
                   IF k \in keys THEN GcMarkFailed(indexed.db.runs[k]) ELSE indexed.db.runs[k]]
  IN [registry |-> indexed.registry,
      db |-> IF dry_run THEN indexed.db ELSE [indexed.db EXCEPT !.runs = marked],
      stale_runs |-> stale]

\* what lastOp records: the operation, its arguments and what it returned
NoOp ==
  [op |-> "env", run |-> NULL, project_id |-> NULL,
   called |-> FALSE, indexed |-> {}, cleanup |-> FALSE,
   dry_run |-> FALSE, stale_runs |-> {}, after_dry_gc |-> FALSE]
EnvOp(name) == [NoOp EXCEPT !.op = name]
\* a reindex entry point called with filter project_id; res is what it did
ReindexOp(name, project_id, res) ==
  [NoOp EXCEPT !.op = name, !.project_id = project_id,
               !.called = res.called, !.indexed = res.indexed, !.cleanup = res.cleanup]

EventCount == LET RECURSIVE Sum(_)
                  Sum(S) == IF S = {} THEN 0
                            ELSE LET r == CHOOSE x \in S : TRUE IN Len(events[r]) + Sum(S \ {r})
              IN Sum(RunIds)

\* the event lines a workflow may append at time ts
RunEventPool(ts) ==
  { Event("run_started", ts, [NoFields EXCEPT !.parent_run_id = "r2", !.kit = "tdd",
                                              !.host = LocalHost, !.pid = 1]),
    Event("run_started", ts, NoFields),
    Event("phase_finished", ts, [NoFields EXCEPT !.exit_code = 0]),
    Event("run_finished", ts, [NoFields EXCEPT !.exit_code = 0]),
    Event("run_finished", ts, [NoFields EXCEPT !.exit_code = 1]) }

\* the first and the last line of a run that succeeds
StartFinishPool(ts) ==
  { Event("run_started", ts, [NoFields EXCEPT !.kit = "tdd", !.host = LocalHost, !.pid = 1]),
    Event("run_finished", ts, [NoFields EXCEPT !.exit_code = 0]) }

\* the request events the interop router may append at time ts
RequestEventPool(ts) ==
  { Event("request_enqueued", ts, [NoFields EXCEPT !.request_id = "rq1", !.from_kit = "tdd"]),
    Event("request_completed", ts, [NoFields EXCEPT !.request_id = "rq1", !.status = "ok",
                                                    !.child_run_id = "r3"]),
    Event("request_completed", ts, [NoFields EXCEPT !.request_id = "rq1", !.status = "failed",
                                                    !.child_run_id = "r3"]) }

\* the line that names the manifest of the run
ManifestEventPool(ts) ==
  { Event("manifest_written", ts, [NoFields EXCEPT !.manifest_path = MissingManifestFile]) }

\* the pool of the given kind
EventPool(kind, ts) ==
  CASE kind = "run" -> RunEventPool(ts)
    [] kind = "stream" -> RunEventPool(ts) \cup ManifestEventPool(ts)
    [] kind = "start_finish" -> StartFinishPool(ts)
    [] kind = "request" -> RequestEventPool(ts)

\* the manifest metadata a workflow may write
ManifestPool ==
  { [exists |-> TRUE, parent_run_id |-> "r2", kit |-> "math", started_at |-> NONE,
     finished_at |-> NONE, exit_code |-> NONE, host |-> NULL, pid |-> NONE] }

SetDb(db) == /\ dbProjects' = db.projects
             /\ dbRuns' = db.runs
             /\ dbRequests' = db.requests

\* nothing was appended to the stream of r1 since upsert_single_run last ran
Upserted == events["r1"] = <<>> \/ lastOp.op = "upsert_single_run"

\* a workflow (or the interop router) appends one line to runs/<r>/events.jsonl
WriteEvent(R, kind) ==
  \E r \in R : \E e \in EventPool(kind, now) :
    /\ EventCount < MaxEvents
    /\ events' = [events EXCEPT ![r] = Append(@, e)]
    /\ lastOp' = EnvOp("env")
    /\ UNCHANGED <<manifests, alive, now, registry, dbProjects, dbRuns, dbRequests, fileVars, cloudVars>>

\* a workflow writes the manifest of run r
WriteManifest(R) ==
  \E r \in R : \E m \in ManifestPool :
    /\ events[r] # <<>>
    /\ manifests[r] = NoManifest
    /\ manifests' = [manifests EXCEPT ![r] = m]
    /\ lastOp' = EnvOp("env")
    /\ UNCHANGED <<events, alive, now, registry, dbProjects, dbRuns, dbRequests, fileVars, cloudVars>>

\* a workflow process dies
ProcessExit ==
  \E pid \in alive :
    /\ alive' = alive \ {pid}
    /\ lastOp' = EnvOp("env")
    /\ UNCHANGED <<events, manifests, now, registry, dbProjects, dbRuns, dbRequests, fileVars, cloudVars>>

\* time passes
Tick ==
  /\ now < MaxTicks * TickSeconds
  /\ now' = now + TickSeconds
  /\ lastOp' = EnvOp("env")
  /\ UNCHANGED <<events, manifests, alive, registry, dbProjects, dbRuns, dbRequests, fileVars, cloudVars>>

\* "dashboard register"
RegisterProject(L) ==
  \E p \in Projects : \E label \in L :
    /\ registry' = upsert_registry_project(registry, p, label)
    /\ registry' # registry
    /\ lastOp' = [NoOp EXCEPT !.op = "register", !.project_id = p]
    /\ UNCHANGED <<events, manifests, alive, now, dbProjects, dbRuns, dbRequests, fileVars, cloudVars>>

\* "dashboard unregister"
UnregisterProject ==
  \E p \in RegistryIds(registry) :
    /\ registry' = remove_registry_project(registry, p)
    /\ lastOp' = [NoOp EXCEPT !.op = "unregister", !.project_id = p]
    /\ UNCHANGED <<events, manifests, alive, now, dbProjects, dbRuns, dbRequests, fileVars, cloudVars>>

\* upsert_single_run(project_id, ..., run_id, run_root)
UpsertSingleRun(R) ==
  \E r \in R :
    /\ IF events[r] = <<>>
       THEN UNCHANGED <<dbProjects, dbRuns, dbRequests>>   \* {"error": "events.jsonl not found"}
       ELSE SetDb(upsert_single_run(Db, ProjectOf(r), r))
    /\ lastOp' = [NoOp EXCEPT !.op = "upsert_single_run", !.run = r, !.project_id = ProjectOf(r)]
    /\ UNCHANGED <<events, manifests, alive, now, registry, fileVars, cloudVars>>

\* "dashboard index [--project-id P]", P (or none: NULL) drawn from Filters
CmdIndex(Filters) ==
  \E project_id \in Filters :
    LET res == cmd_index(registry, Db, project_id)
    IN /\ registry' = res.registry
       /\ SetDb(res.db)
       /\ lastOp' = ReindexOp("cmd_index", project_id, res)
       /\ UNCHANGED <<events, manifests, alive, now, fileVars, cloudVars>>

\* "dashboard serve [--project-id P]": the index seeding at startup
CmdServe ==
  \E project_id \in Projects \cup {NULL} :
    LET res == cmd_serve(registry, Db, project_id)
    IN /\ registry' = res.registry
       /\ SetDb(res.db)
       /\ lastOp' = ReindexOp("cmd_serve", project_id, res)
       /\ UNCHANGED <<events, manifests, alive, now, fileVars, cloudVars>>

\* POST /api/refresh {project_id?}
ApiRefresh ==
  \E project_id \in Projects \cup {NULL} :
    LET res == api_refresh(registry, Db, project_id)
    IN /\ registry' = res.registry
       /\ SetDb(res.db)
       /\ lastOp' = ReindexOp("api_refresh", project_id, res)
       /\ UNCHANGED <<events, manifests, alive, now, fileVars, cloudVars>>

\* kit.gc {dry_run}
Gc ==
  \E dry_run \in BOOLEAN :
    LET res == tool_kit_gc(registry, Db, dry_run)
    IN /\ registry' = res.registry
       /\ SetDb(res.db)
       /\ lastOp' = [NoOp EXCEPT !.op = "gc", !.dry_run = dry_run, !.stale_runs = res.stale_runs,
                                  !.after_dry_gc = (lastOp.op = "gc" /\ lastOp.dry_run)]
       /\ UNCHANGED <<events, manifests, alive, now, fileVars, cloudVars>>

\* index_projects called as a library function on some registered projects
IndexProjects ==
  \E S \in SUBSET RegistryIds(registry) : \E cleanup \in BOOLEAN :
    LET projs == SelectSeq(registry, LAMBDA item : item.project_id \in S)
    IN /\ SetDb(index_projects(Db, projs, cleanup))
       /\ lastOp' = [NoOp EXCEPT !.op = "index_projects", !.called = TRUE,
                                  !.indexed = S, !.cleanup = cleanup]
       /\ UNCHANGED <<events, manifests, alive, now, registry, fileVars, cloudVars>>

EmptyFn == [x \in {} |-> x]

InitIndex ==
  /\ events = [r \in RunIds |-> <<>>]
  /\ manifests = [r \in RunIds |-> NoManifest]
  /\ alive = Pids
  /\ now = 0
  /\ registry = <<>>
  /\ dbProjects = EmptyFn
  /\ dbRuns = EmptyFn
  /\ dbRequests = EmptyFn
  /\ lastOp = EnvOp("init")


(***************************************************************************)
(* Part II  The writers of the JSON state files                            *)
(***************************************************************************)
\* number of save calls started on all state files
MaxWrites == 2

\* projects.json, written by save_registry
RegistryFile == "registry"
\* the dashboard service state, written by save_service_state
ServiceFile == "service"
\* <batch_id>.json of the batch state directory, written by save_batch_state
BatchFile == "batch"
\* <run_id>.json of the global cloud state directory, written by _save_state
CloudRunFile == "cloud_run"
\* .kit/cloud-state.json of a project, written by state._save
ProjectCloudFile == "project_cloud"

StateFiles == {RegistryFile, ServiceFile, BatchFile, CloudRunFile, ProjectCloudFile}
\* the files saved with Path.write_text at their final path
WriteTextFiles == {RegistryFile, ServiceFile, CloudRunFile}
\* the files saved through mkstemp and os.replace
ReplaceFiles == {BatchFile, ProjectCloudFile}

\* the values a save call may be given
DocValues == {"v1", "v2"}

\* the text a save call writes for value v, as the pieces that reach the disk
\* one after another: json.dumps / json.dump, and the trailing newline of the
\* writers that add one
Serialize(f, v) ==
  IF f = RegistryFile THEN <<"[", v, "]", "\n">>
  ELSE IF f \in {ServiceFile, ProjectCloudFile} THEN <<"{", v, "}", "\n">>
  ELSE <<"{", v, "}">>

Corrupt == "corrupt"
Absent == "absent"
\* json.loads(text): the value, or Corrupt when it raises
Parse(text) ==
  IF /\ Len(text) \in {3, 4}
     /\ text[2] \in DocValues
     /\ \/ text[1] = "[" /\ text[3] = "]"
        \/ text[1] = "{" /\ text[3] = "}"
     /\ Len(text) = 4 => text[4] = "\n"
  THEN text[2]
  ELSE Corrupt

NoFile == [exists |-> FALSE, text |-> <<>>]
\* what a reader finds at a path
Content(file) == IF file.exists THEN Parse(file.text) ELSE Absent

IdleWriter == [pc |-> "idle", text |-> <<>>, pos |-> 0]
NoSave == [before |-> Absent, doc |-> NULL, crashed |-> FALSE]

\* a save call starts: what it found, and the text it is going to write
StartSave(f, v) ==
  /\ writer[f].pc = "idle"
  /\ writes < MaxWrites
  /\ writes' = writes + 1
  /\ writer' = [writer EXCEPT ![f] = [pc |-> "writing", text |-> Serialize(f, v), pos |-> 0]]
  /\ saved' = [saved EXCEPT ![f] = [before |-> Content(disk[f]), doc |-> v, crashed |-> FALSE]]

\* Path.write_text: open(path, "w") creates or truncates the file
WriteTextOpen(F) ==
  \E f \in F : \E v \in DocValues :
    /\ StartSave(f, v)
    /\ disk' = [disk EXCEPT ![f] = [exists |-> TRUE, text |-> <<>>]]
    /\ UNCHANGED <<temp, idxVars, cloudVars>>

\* Path.write_text: the next piece of the text reaches the file
WriteTextWrite(F) ==
  \E f \in F :
    /\ writer[f].pc = "writing"
    /\ writer[f].pos < Len(writer[f].text)
    /\ disk' = [disk EXCEPT ![f].text = Append(@, writer[f].text[writer[f].pos + 1])]
    /\ writer' = [writer EXCEPT ![f].pos = @ + 1]
    /\ UNCHANGED <<temp, saved, writes, idxVars, cloudVars>>

\* Path.write_text: the file is closed and the save call returns
WriteTextClose(F) ==
  \E f \in F :
    /\ writer[f].pc = "writing"
    /\ writer[f].pos = Len(writer[f].text)
    /\ writer' = [writer EXCEPT ![f] = IdleWriter]
    /\ UNCHANGED <<disk, temp, saved, writes, idxVars, cloudVars>>

\* tempfile.mkstemp(dir=path.parent, suffix=".tmp")
ReplaceOpen(F) ==
  \E f \in F : \E v \in DocValues :
    /\ StartSave(f, v)
    /\ temp' = [temp EXCEPT ![f] = [exists |-> TRUE, text |-> <<>>]]
    /\ UNCHANGED <<disk, idxVars, cloudVars>>

\* json.dump(data, f): the next piece of the text reaches the temp file
ReplaceWrite(F) ==
  \E f \in F :
    /\ writer[f].pc = "writing"
    /\ writer[f].pos < Len(writer[f].text)
    /\ temp' = [temp EXCEPT ![f].text = Append(@, writer[f].text[writer[f].pos + 1])]
    /\ writer' = [writer EXCEPT ![f].pos = @ + 1]
    /\ UNCHANGED <<disk, saved, writes, idxVars, cloudVars>>

\* os.replace(tmp, path), after the with block closed the temp file
ReplaceRename(F) ==
  \E f \in F :
    /\ writer[f].pc = "writing"
    /\ writer[f].pos = Len(writer[f].text)
    /\ disk' = [disk EXCEPT ![f] = temp[f]]
    /\ temp' = [temp EXCEPT ![f] = NoFile]
    /\ writer' = [writer EXCEPT ![f] = IdleWriter]
    /\ UNCHANGED <<saved, writes, idxVars, cloudVars>>

\* the except branch of the atomic writers: a write raises, the temp file is
\* unlinked and the exception propagates
ReplaceFails(F) ==
  \E f \in F :
    /\ writer[f].pc = "writing"
    /\ temp' = [temp EXCEPT ![f] = NoFile]
    /\ writer' = [writer EXCEPT ![f] = IdleWriter]
    /\ UNCHANGED <<disk, saved, writes, idxVars, cloudVars>>

\* the writing process is killed (or the machine stops) in the middle of a save
Crash ==
  \E f \in StateFiles :
    /\ writer[f].pc = "writing"
    /\ writer' = [writer EXCEPT ![f] = IdleWriter]
    /\ saved' = [saved EXCEPT ![f].crashed = TRUE]
    /\ UNCHANGED <<disk, temp, writes, idxVars, cloudVars>>

InitFiles ==
  /\ disk = [f \in StateFiles |-> NoFile]
  /\ temp = [f \in StateFiles |-> NoFile]
  /\ writer = [f \in StateFiles |-> IdleWriter]
  /\ saved = [f \in StateFiles |-> NoSave]
  /\ writes = 0


(***************************************************************************)
(* Part III  The cloud run launcher (tools/cloud/remote.py)                *)
(***************************************************************************)
\* the calls of run(); the run_id a call generates is the call's name
Calls == {"c1", "c2"}
\* the spec files a call may name
SpecPaths == {"specs/a.md"}

IdleCall ==
  [pc |-> "idle", spec_file |-> NULL, allow_duplicate |-> FALSE, dry_run |-> FALSE,
   detach |-> FALSE, live_at_call |-> FALSE, reported |-> "none",
   provision_called |-> FALSE, raised |-> NULL,
   instance_id |-> NONE, terminate_called |-> FALSE,
   exit_code |-> NONE, via_grace |-> FALSE, hours |-> 0]
\* no state file yet
NoRunState == [status |-> NULL, instance_id |-> NONE, exit_code |-> NONE]

\* backend.find_instances_by_spec(spec): the running or pending instances
\* whose cloud-run:spec tag is spec
find_instances_by_spec(spec) ==
  {i \in 1..Len(instances) : instances[i].spec = spec /\ instances[i].state = "running"}

\* the instances the backend lists as running or pending
LiveInstances == {i \in 1..Len(instances) : instances[i].state = "running"}

\* DEFAULT_MAX_HOURS, the max_hours of run() when none is given
DEFAULT_MAX_HOURS == 12

\* the instance provision() launches: tagged cloud-run:run-id, cloud-run:spec,
\* cloud-run:max-hours (NONE: a value float() reads as nan or rejects) and
\* cloud-run:launched-at
TaggedInstance(run_id, spec, max_hours) ==
  [run_id |-> run_id, spec |-> spec, state |-> "running",
   max_hours |-> max_hours, launched_at |-> hour]

\* backend.terminate(instance_id)
terminate(insts, i) == [insts EXCEPT ![i].state = "terminated"]

\* run(): the state dict is built and saved; a dry run returns it at once
RunBegin ==
  \E c \in Calls : \E spec_file \in SpecPaths \cup {NULL} :
  \E allow_duplicate \in BOOLEAN : \E dry_run \in BOOLEAN : \E detach \in BOOLEAN :
    /\ call[c].pc = "idle"
    /\ call' = [call EXCEPT ![c] =
                  [IdleCall EXCEPT !.pc = IF dry_run THEN "returned" ELSE "check",
                                   !.spec_file = spec_file,
                                   !.allow_duplicate = allow_duplicate,
                                   !.dry_run = dry_run,
                                   !.detach = detach,
                                   !.live_at_call = (spec_file # NULL /\ find_instances_by_spec(spec_file) # {})]]
    /\ runState' = [runState EXCEPT ![c] =
                      [NoRunState EXCEPT !.status = IF dry_run THEN "dry_run" ELSE "pending"]]
    /\ UNCHANGED <<instances, projectState, exitCodes, fleetVars, idxVars, fileVars>>

\* variant of RunDuplicateCheck that does not look at allow_duplicate
RunDuplicateCheck_ignoresAllow ==
  \E c \in Calls :
    /\ call[c].pc = "check"
    /\ IF call[c].spec_file # NULL
       THEN LET existing == find_instances_by_spec(call[c].spec_file)
            IN IF existing # {}
               THEN /\ runState' = [runState EXCEPT ![c].status = "blocked_duplicate"]
                    /\ call' = [call EXCEPT ![c].pc = "except", ![c].reported = "live",
                                            ![c].raised = "DuplicateSpecError"]
               ELSE /\ call' = [call EXCEPT ![c].pc = "upload", ![c].reported = "empty"]
                    /\ UNCHANGED runState
       ELSE /\ call' = [call EXCEPT ![c].pc = "upload"]
            /\ UNCHANGED runState
    /\ UNCHANGED <<instances, projectState, exitCodes, fleetVars, idxVars, fileVars>>

\* step 0 of run(): the spec duplicate check
RunDuplicateCheck ==
  \E c \in Calls :
    /\ call[c].pc = "check"
    /\ IF call[c].spec_file # NULL /\ ~call[c].allow_duplicate
       THEN LET existing == find_instances_by_spec(call[c].spec_file)
            IN IF existing # {}
               THEN /\ runState' = [runState EXCEPT ![c].status = "blocked_duplicate"]
                    /\ call' = [call EXCEPT ![c].pc = "except", ![c].reported = "live",
                                            ![c].raised = "DuplicateSpecError"]
               ELSE /\ call' = [call EXCEPT ![c].pc = "upload", ![c].reported = "empty"]
                    /\ UNCHANGED runState
       ELSE /\ call' = [call EXCEPT ![c].pc = "upload"]
            /\ UNCHANGED runState
    /\ UNCHANGED <<instances, projectState, exitCodes, fleetVars, idxVars, fileVars>>

\* step 1 of run(): the code tarball and the data directories go to S3, or
\* the upload raises
RunUpload ==
  \E c \in Calls : \E ok \in BOOLEAN :
    /\ call[c].pc = "upload"
    /\ call' = IF ok THEN [call EXCEPT ![c].pc = "provision"]
               ELSE [call EXCEPT ![c].pc = "except", ![c].raised = "UploadError"]
    /\ UNCHANGED <<instances, runState, projectState, exitCodes, fleetVars, idxVars, fileVars>>

\* step 2 of run(): backend.provision(config) launches an instance tagged with
\* the run_id and the spec file and returns its id, or raises
RunProvision ==
  \E c \in Calls : \E ok \in BOOLEAN :
    /\ call[c].pc = "provision"
    /\ IF ok
       THEN LET instance_id == Len(instances) + 1
            IN /\ instances' = Append(instances, TaggedInstance(c, call[c].spec_file,
                                                                DEFAULT_MAX_HOURS))
               /\ call' = [call EXCEPT ![c].pc = "record", ![c].provision_called = TRUE,
                                       ![c].instance_id = instance_id]
       ELSE /\ call' = [call EXCEPT ![c].pc = "except", ![c].provision_called = TRUE,
                                    ![c].raised = "ProvisionError"]
            /\ UNCHANGED instances
    /\ UNCHANGED <<runState, projectState, exitCodes, fleetVars, idxVars, fileVars>>

\* run() after provision: _update_state records instance_id and status
\* "provisioning" in the run's state file, then project_state.register_run
\* adds the run to the project's active_runs; either write may raise
RunRecordInstance ==
  \E c \in Calls : \E outcome \in {"ok", "update_state_raises", "register_run_raises"} :
    /\ call[c].pc = "record"
    /\ CASE outcome = "ok" ->
              /\ runState' = [runState EXCEPT ![c].instance_id = call[c].instance_id,
                                              ![c].status = "provisioning"]
              /\ projectState' = projectState \cup {c}
              /\ call' = [call EXCEPT ![c].pc = "wait_ready"]
         [] outcome = "update_state_raises" ->
              /\ call' = [call EXCEPT ![c].pc = "except", ![c].raised = "OSError"]
              /\ UNCHANGED <<runState, projectState>>
         [] OTHER ->
              /\ runState' = [runState EXCEPT ![c].instance_id = call[c].instance_id,
                                              ![c].status = "provisioning"]
              /\ call' = [call EXCEPT ![c].pc = "except", ![c].raised = "OSError"]
              /\ UNCHANGED projectState
    /\ UNCHANGED <<instances, exitCodes, fleetVars, idxVars, fileVars>>

\* step 3 of run(): backend.wait_ready returns or times out; a detached call
\* returns the saved state
RunWaitReady ==
  \E c \in Calls : \E ok \in BOOLEAN :
    /\ call[c].pc = "wait_ready"
    /\ IF ok
       THEN /\ runState' = [runState EXCEPT ![c].status = "running"]
            /\ call' = [call EXCEPT ![c].pc = IF call[c].detach THEN "returned" ELSE "poll"]
       ELSE /\ call' = [call EXCEPT ![c].pc = "except", ![c].raised = "TimeoutError"]
            /\ UNCHANGED runState
    /\ UNCHANGED <<instances, projectState, exitCodes, fleetVars, idxVars, fileVars>>

\* step 4 of run(), the loop of _poll_and_retrieve: an iteration reads the
\* exit_code marker (the read may raise); with a marker the loop ends, without
\* one the instance state is read, and an instance that is terminated, stopped
\* or shutting down sends the loop to its grace-period check
RunPoll ==
  \E c \in Calls : \E ok \in BOOLEAN :
    /\ call[c].pc = "poll"
    /\ IF ~ok
       THEN call' = [call EXCEPT ![c].pc = "except", ![c].raised = "S3Error"]
       ELSE IF exitCodes[c] # NONE
       THEN call' = [call EXCEPT ![c].pc = "retrieve", ![c].exit_code = exitCodes[c]]
       ELSE /\ instances[call[c].instance_id].state # "running"
            /\ call' = [call EXCEPT ![c].pc = "grace"]
    /\ UNCHANGED <<instances, runState, projectState, exitCodes, fleetVars, idxVars, fileVars>>

\* hours the poll loop is followed for
MaxPollHours == 14

\* one more hour of iterations of the loop of _poll_and_retrieve in which the
\* marker read found nothing and every backend.status call raised (the except
\* clause of the loop passes) or reported a running instance: elapsed is
\* printed and the loop sleeps POLL_INTERVAL_SECONDS and goes round again
RunPollHour ==
  \E c \in Calls : \E status_raises \in BOOLEAN :
    /\ call[c].pc = "poll"
    /\ exitCodes[c] = NONE
    /\ status_raises \/ instances[call[c].instance_id].state = "running"
    /\ call[c].hours < MaxPollHours
    /\ call' = [call EXCEPT ![c].hours = @ + 1]
    /\ UNCHANGED <<instances, runState, projectState, exitCodes, fleetVars, idxVars, fileVars>>

\* variant of RunPollGrace that takes a lost instance for a success
RunPollGrace_assumesSuccess ==
  \E c \in Calls : \E ok \in BOOLEAN :
    /\ call[c].pc = "grace"
    /\ call' = IF ~ok
               THEN [call EXCEPT ![c].pc = "except", ![c].raised = "S3Error"]
               ELSE [call EXCEPT ![c].pc = "retrieve", ![c].via_grace = TRUE,
                                 ![c].exit_code = IF exitCodes[c] # NONE THEN exitCodes[c]
                                                  ELSE 0]
    /\ UNCHANGED <<instances, runState, projectState, exitCodes, fleetVars, idxVars, fileVars>>

\* the grace-period check of _poll_and_retrieve: after 5 seconds the marker
\* is read once more (the read may raise); without a marker exit code 1 is
\* assumed
RunPollGrace ==
  \E c \in Calls : \E ok \in BOOLEAN :
    /\ call[c].pc = "grace"
    /\ call' = IF ~ok
               THEN [call EXCEPT ![c].pc = "except", ![c].raised = "S3Error"]
               ELSE [call EXCEPT ![c].pc = "retrieve", ![c].via_grace = TRUE,
                                 ![c].exit_code = IF exitCodes[c] # NONE THEN exitCodes[c]
                                                  ELSE 1]
    /\ UNCHANGED <<instances, runState, projectState, exitCodes, fleetVars, idxVars, fileVars>>

\* the end of _poll_and_retrieve: the final status is saved, the results are
\* pulled (the download may raise), the instance is terminated and the
\* project entry removed
RunRetrieve ==
  \E c \in Calls : \E ok \in BOOLEAN :
    LET exit_code == call[c].exit_code
    IN /\ call[c].pc = "retrieve"
       /\ runState' = [runState EXCEPT ![c].exit_code = exit_code,
                                       ![c].status = IF exit_code = 0 THEN "completed"
                                                     ELSE "failed"]
       /\ IF ok
          THEN /\ instances' = terminate(instances, call[c].instance_id)
               /\ projectState' = projectState \ {c}
               /\ call' = [call EXCEPT ![c].pc = "returned", ![c].terminate_called = TRUE]
          ELSE /\ call' = [call EXCEPT ![c].pc = "except", ![c].raised = "S3Error"]
               /\ UNCHANGED <<instances, projectState>>
       /\ UNCHANGED <<exitCodes, fleetVars, idxVars, fileVars>>

\* the experiment's exit_code marker reaches S3 while its instance is already
\* shutting down
MarkerArrives ==
  \E c \in Calls : \E code \in {0, 1} :
    /\ exitCodes[c] = NONE
    /\ \E i \in 1..Len(instances) : instances[i].run_id = c /\ instances[i].state # "running"
    /\ exitCodes' = [exitCodes EXCEPT ![c] = code]
    /\ UNCHANGED <<call, instances, runState, projectState, fleetVars, idxVars, fileVars>>

\* the except clause of run(): status "error" is saved, the instance_id
\* recorded in the saved state, if any, is terminated, and the exception is
\* raised again
RunExcept ==
  \E c \in Calls :
    /\ call[c].pc = "except"
    /\ runState' = [runState EXCEPT ![c].status = "error"]
    /\ instances' = IF runState[c].instance_id # NONE
                    THEN terminate(instances, runState[c].instance_id)
                    ELSE instances
    /\ call' = [call EXCEPT ![c].pc = "raised",
                            ![c].terminate_called =
                               (runState[c].instance_id # NONE
                                /\ runState[c].instance_id = call[c].instance_id)]
    /\ UNCHANGED <<projectState, exitCodes, fleetVars, idxVars, fileVars>>

\* poll_status(run_id): a finished run is returned as saved; an exit_code
\* marker in S3 makes the run completed or failed; without one, a stopped
\* instance makes it terminated_no_results, and otherwise "running" is
\* reported.  The result is the status returned and the state saved.
PollStatus(c) ==
  LET state == runState[c]
  IN IF state.status \in {"completed", "failed", "error"}
     THEN [returned |-> state.status, saved |-> state]
     ELSE IF exitCodes[c] # NONE
     THEN LET new_status == IF exitCodes[c] = 0 THEN "completed" ELSE "failed"
          IN [returned |-> new_status,
              saved |-> [state EXCEPT !.exit_code = exitCodes[c], !.status = new_status]]
     ELSE IF state.instance_id # NONE /\ instances[state.instance_id].state # "running"
     THEN [returned |-> "terminated_no_results",
           saved |-> [state EXCEPT !.status = "terminated_no_results"]]
     ELSE [returned |-> "running", saved |-> state]

\* cloud-run status: a call of poll_status
poll_status ==
  \E c \in Calls :
    /\ runState[c].status # NULL
    /\ runState' = [runState EXCEPT ![c] = PollStatus(c).saved]
    /\ UNCHANGED <<call, instances, projectState, exitCodes, fleetVars, idxVars, fileVars>>

\* terminate_run(run_id, backend): the recorded instance is terminated, the
\* status becomes "terminated" and the project entry is removed
terminate_run ==
  \E c \in Calls :
    /\ runState[c].status # NULL
    /\ runState[c].instance_id # NONE
    /\ instances' = terminate(instances, runState[c].instance_id)
    /\ runState' = [runState EXCEPT ![c].status = "terminated"]
    /\ projectState' = projectState \ {c}
    /\ UNCHANGED <<call, exitCodes, fleetVars, idxVars, fileVars>>

\* the exit code gc_stale_runs writes for a lost instance
StaleExitCode == 137

\* the runs gc_stale_runs cleans up: saved as running or provisioning, without
\* an exit_code marker, with a recorded instance that is no longer running
StaleCloudRuns ==
  {c \in Calls :
     /\ runState[c].status \in {"running", "provisioning"}
     /\ exitCodes[c] = NONE
     /\ runState[c].instance_id # NONE
     /\ instances[runState[c].instance_id].state # "running"}

\* gc_stale_runs(backend): every stale run whose instance state can be read
\* gets the marker exit_code=137 and the status terminated_no_results; a
\* status query that raises leaves its run alone
gc_stale_runs ==
  \E unreadable \in SUBSET Calls :
    LET cleaned == StaleCloudRuns \ unreadable
    IN /\ exitCodes' = [c \in Calls |-> IF c \in cleaned THEN StaleExitCode ELSE exitCodes[c]]
       /\ runState' = [c \in Calls |->
                         IF c \in cleaned
                         THEN [runState[c] EXCEPT !.status = "terminated_no_results",
                                                  !.exit_code = StaleExitCode]
                         ELSE runState[c]]
       /\ UNCHANGED <<call, instances, projectState, fleetVars, idxVars, fileVars>>

\* an instance stops: the experiment ended and wrote its exit_code marker
\* before the shutdown, or the instance was lost without writing one
InstanceStops ==
  \E i \in 1..Len(instances) : \E code \in {NONE, 0, 1} :
    /\ instances[i].state = "running"
    /\ instances' = terminate(instances, i)
    /\ exitCodes' = [exitCodes EXCEPT ![instances[i].run_id] = code]
    /\ UNCHANGED <<call, runState, projectState, fleetVars, idxVars, fileVars>>


(***************************************************************************)
(* III.2  AWSBackend.provision (tools/cloud/backends/aws.py)               *)
(***************************************************************************)
\* number of provision() calls started
MaxProvisions == 3
\* the callers of provision()
Provisioners == {"a", "b"}

IdleProv ==
  [pc |-> "idle", run_id |-> NULL, use_spot |-> FALSE, on_demand_retry |-> FALSE,
   result |-> NONE, raised |-> NULL]

\* _find_existing_instance(run_id): the running or pending instances tagged
\* cloud-run:run-id = run_id
find_existing_instance(run_id) ==
  {i \in 1..Len(instances) : instances[i].run_id = run_id /\ instances[i].state = "running"}

\* the instance EC2 launched for the client token of run_id, if it remembers one
LaunchedWithToken(run_id) ==
  IF run_id \in ec2Tokens
  THEN {i \in 1..Len(instances) :
          instances[i].run_id = run_id
          /\ \A j \in 1..Len(instances) : instances[j].run_id = run_id => j <= i}
  ELSE {}

\* a caller invokes backend.provision(config) for some run_id
ProvisionBegin ==
  \E p \in Provisioners : \E r \in Calls : \E use_spot \in BOOLEAN :
    /\ prov[p].pc = "idle"
    /\ provisions < MaxProvisions
    /\ provisions' = provisions + 1
    /\ prov' = [prov EXCEPT ![p] = [IdleProv EXCEPT !.pc = "find", !.run_id = r, !.use_spot = use_spot]]
    /\ UNCHANGED <<ec2Tokens, call, instances, runState, projectState, exitCodes, opsVars, idxVars, fileVars>>

\* provision() without the idempotency check: always goes on to launch
ProvisionFindExisting_noCheck ==
  \E p \in Provisioners :
    /\ prov[p].pc = "find"
    /\ prov' = [prov EXCEPT ![p].pc = "launch"]
    /\ UNCHANGED <<ec2Tokens, provisions, call, instances, runState, projectState, exitCodes,
                   opsVars, idxVars, fileVars>>

\* provision(): the idempotency check on the run_id tag
ProvisionFindExisting ==
  \E p \in Provisioners :
    LET existing == find_existing_instance(prov[p].run_id)
    IN /\ prov[p].pc = "find"
       /\ IF existing # {}
          THEN \E i \in existing : prov' = [prov EXCEPT ![p].pc = "returned", ![p].result = i]
          ELSE prov' = [prov EXCEPT ![p].pc = "launch"]
       /\ UNCHANGED <<ec2Tokens, provisions, call, instances, runState, projectState, exitCodes,
                      opsVars, idxVars, fileVars>>

\* ec2.run_instances(ClientToken="cloud-run-<run_id>", ...): EC2 returns the
\* instance it already launched for the token, or launches one and remembers
\* the token
run_instances(p) ==
  LET r == prov[p].run_id
      known == LaunchedWithToken(r)
  IN IF known # {}
     THEN /\ \E i \in known : prov' = [prov EXCEPT ![p].pc = "returned", ![p].result = i]
          /\ UNCHANGED <<instances, ec2Tokens>>
     ELSE /\ instances' = Append(instances, TaggedInstance(r, NULL, DEFAULT_MAX_HOURS))
          /\ ec2Tokens' = ec2Tokens \cup {r}
          /\ prov' = [prov EXCEPT ![p].pc = "returned", ![p].result = Len(instances) + 1]

\* provision(): the first run_instances call; a spot request may find no
\* capacity, any request may fail
ProvisionRunInstances ==
  \E p \in Provisioners : \E outcome \in {"ok", "InsufficientInstanceCapacity", "ClientError"} :
    /\ prov[p].pc = "launch"
    /\ CASE outcome = "ok" -> run_instances(p)
         [] outcome = "InsufficientInstanceCapacity" /\ prov[p].use_spot ->
              /\ prov' = [prov EXCEPT ![p].pc = "retry", ![p].on_demand_retry = TRUE]
              /\ UNCHANGED <<instances, ec2Tokens>>
         [] OTHER ->
              /\ prov' = [prov EXCEPT ![p].pc = "raised", ![p].raised = outcome]
              /\ UNCHANGED <<instances, ec2Tokens>>
    /\ UNCHANGED <<provisions, call, runState, projectState, exitCodes, opsVars, idxVars, fileVars>>

\* provision(): the on-demand retry after InsufficientInstanceCapacity
ProvisionRetryOnDemand ==
  \E p \in Provisioners : \E ok \in BOOLEAN :
    /\ prov[p].pc = "retry"
    /\ IF ok THEN run_instances(p)
       ELSE /\ prov' = [prov EXCEPT ![p].pc = "raised", ![p].raised = "ClientError"]
            /\ UNCHANGED <<instances, ec2Tokens>>
    /\ UNCHANGED <<provisions, call, runState, projectState, exitCodes, opsVars, idxVars, fileVars>>

\* the caller takes the result; it may call provision() again
ProvisionEnd ==
  \E p \in Provisioners :
    /\ prov[p].pc \in {"returned", "raised"}
    /\ prov' = [prov EXCEPT ![p] = IdleProv]
    /\ UNCHANGED <<ec2Tokens, provisions, call, instances, runState, projectState, exitCodes,
                   opsVars, idxVars, fileVars>>

\* the dedup window of a client token ends: EC2 forgets the token
TokenExpires ==
  \E r \in ec2Tokens :
    /\ ec2Tokens' = ec2Tokens \ {r}
    /\ UNCHANGED <<prov, provisions, call, instances, runState, projectState, exitCodes,
                   opsVars, idxVars, fileVars>>

InitProvision ==
  /\ prov = [p \in Provisioners |-> IdleProv]
  /\ ec2Tokens = {}
  /\ provisions = 0

(***************************************************************************)
(* III.3  The instance reaper (tools/cloud/reaper.py)                      *)
(***************************************************************************)
\* number of times the fleet clock advances
MaxHourTicks == 2
\* number of reap() calls
MaxReaps == 1
\* DEFAULT_HARD_CEILING_HOURS
DEFAULT_HARD_CEILING_HOURS == 24
\* the hard_ceiling_hours a caller of reap() passes
HardCeilings == {DEFAULT_HARD_CEILING_HOURS, 2}
\* the max_hours of the launched runs
MaxHoursValues == {1, DEFAULT_MAX_HOURS, NONE}
\* the hours that pass between two observations of the fleet
HourSteps == {1, 12}
ProjectRoot == "project"

NoReap == [dry_run |-> FALSE, hard_ceiling_hours |-> NONE, project_root |-> NULL, actions |-> {}]

\* variant of ReapReason that only knows the hard ceiling
ReapReason_ceilingOnly(inst, age_hours, hard_ceiling_hours) ==
  IF age_hours > hard_ceiling_hours THEN "hard_ceiling" ELSE NULL

\* reap(): the reason to terminate an instance, or NULL
ReapReason(inst, age_hours, hard_ceiling_hours) ==
  IF inst.max_hours # NONE /\ age_hours > inst.max_hours THEN "lease_expired"
  ELSE IF age_hours > hard_ceiling_hours THEN "hard_ceiling"
  ELSE NULL

\* variant of reap that terminates in a dry run too
reap_dryRunTerminates(dry_run, hard_ceiling_hours, project_root) ==
  LET age_hours(i) == hour - instances[i].launched_at
      reason(i) == ReapReason(instances[i], age_hours(i), hard_ceiling_hours)
      overdue == {i \in LiveInstances : reason(i) # NULL}
  IN [actions |-> {[instance_id |-> i, run_id |-> instances[i].run_id,
                    age_hours |-> age_hours(i), max_hours |-> instances[i].max_hours,
                    reason |-> reason(i),
                    action |-> IF dry_run THEN "would_terminate" ELSE "terminated"] : i \in overdue},
      instances |-> [i \in DOMAIN instances |->
                       IF i \in overdue THEN [instances[i] EXCEPT !.state = "terminated"]
                       ELSE instances[i]],
      projectState |-> IF project_root = NULL THEN projectState
                       ELSE projectState \ {instances[i].run_id : i \in overdue}]

\* reap(backend, dry_run, hard_ceiling_hours, project_root): the running or
\* pending instances that carry cloud-run:launched-at are enumerated; one
\* whose age exceeds its max-hours tag or the hard ceiling gets an action row
\* and, unless dry_run, is terminated and removed from the project state.
\* The result is the action list, the fleet and the project state afterwards.
reap(dry_run, hard_ceiling_hours, project_root) ==
  LET age_hours(i) == hour - instances[i].launched_at
      reason(i) == ReapReason(instances[i], age_hours(i), hard_ceiling_hours)
      overdue == {i \in LiveInstances : reason(i) # NULL}
  IN [actions |-> {[instance_id |-> i, run_id |-> instances[i].run_id,
                    age_hours |-> age_hours(i), max_hours |-> instances[i].max_hours,
                    reason |-> reason(i),
                    action |-> IF dry_run THEN "would_terminate" ELSE "terminated"] : i \in overdue},
      instances |-> IF dry_run THEN instances
                    ELSE [i \in DOMAIN instances |->
                            IF i \in overdue THEN [instances[i] EXCEPT !.state = "terminated"]
                            ELSE instances[i]],
      projectState |-> IF dry_run \/ project_root = NULL THEN projectState
                       ELSE projectState \ {instances[i].run_id : i \in overdue}]

\* a call of reap()
Reap ==
  \E dry_run \in BOOLEAN : \E hard_ceiling_hours \in HardCeilings :
  \E project_root \in {NULL, ProjectRoot} :
    LET result == reap(dry_run, hard_ceiling_hours, project_root)
    IN /\ reaps < MaxReaps
       /\ reaps' = reaps + 1
       /\ instances' = result.instances
       /\ projectState' = result.projectState
       /\ reapLog' = [dry_run |-> dry_run, hard_ceiling_hours |-> hard_ceiling_hours,
                      project_root |-> project_root, actions |-> result.actions]
       /\ UNCHANGED <<hour, hourTicks, call, runState, exitCodes, provVars, batchVars, mcpVars, dashVars, idxVars, fileVars>>

\* a run() has launched its instance: provision() tagged it and the run is
\* registered in the project state
InstanceLaunched ==
  \E r \in Calls : \E max_hours \in MaxHoursValues :
    /\ \A i \in 1..Len(instances) : instances[i].run_id # r
    /\ instances' = Append(instances, TaggedInstance(r, NULL, max_hours))
    /\ projectState' = projectState \cup {r}
    /\ UNCHANGED <<call, runState, exitCodes, provVars, reapVars, batchVars, mcpVars, dashVars, idxVars, fileVars>>

\* time passes
HoursPass ==
  \E d \in HourSteps :
    /\ hourTicks < MaxHourTicks
    /\ hourTicks' = hourTicks + 1
    /\ hour' = hour + d
    /\ UNCHANGED <<reaps, reapLog, call, instances, runState, projectState, exitCodes,
                   provVars, batchVars, mcpVars, dashVars, idxVars, fileVars>>

InitReaper ==
  /\ hour = 0
  /\ hourTicks = 0
  /\ reaps = 0
  /\ reapLog = NoReap

(***************************************************************************)
(* III.4  Batch dispatch (tools/cloud/batch.py)                            *)
(***************************************************************************)
\* the spec files a batch may name
BatchSpecs == {"specs/a.md", "specs/b.md"}
\* the run_id that run() generates for the spec of a batch
RunOfSpec(spec) == IF spec = "specs/a.md" THEN "c1" ELSE "c2"
\* the max_instances and max_cost a caller passes (NONE: no max_cost)
MaxInstancesValues == {1, 2}
MaxCostValues == {NONE, 1, 3}
\* cost_per_hour * estimated_wall_hours of a spec; NONE for a spec whose
\* compute profile preflight.check_spec cannot read
SpecCosts == {NONE, 2}
TERMINAL_STATUSES == {"completed", "failed", "error", "terminated"}

NoBatchFile == [status |-> NULL, results |-> <<>>]
IdleBatch ==
  [pc |-> "idle", specs |-> {}, max_instances |-> 0, max_cost |-> NONE,
   cost |-> <<>>, raised |-> NULL, run_calls |-> 0, last_call |-> NULL, runs |-> {},
   pending_runs |-> {},
   results |-> <<>>, last_poll |-> <<>>, state |-> NoBatchFile]

RECURSIVE total_cost(_, _)
\* the cost guard's sum over the specs; specs without a profile are skipped
total_cost(specs, cost) ==
  IF specs = {} THEN 0
  ELSE LET spec == CHOOSE x \in specs : TRUE
       IN (IF cost[spec] = NONE THEN 0 ELSE cost[spec]) + total_cost(specs \ {spec}, cost)

\* variant of launch_batch_guard without the cost guard
launch_batch_guard_countOnly(specs, max_instances, max_cost, cost) ==
  IF Cardinality(specs) > max_instances THEN "ValueError" ELSE NULL

\* steps 1 and 2 of launch_batch: the error the guards raise, or NULL
launch_batch_guard(specs, max_instances, max_cost, cost) ==
  IF Cardinality(specs) > max_instances THEN "ValueError"
  ELSE IF max_cost # NONE /\ total_cost(specs, cost) > max_cost THEN "ValueError"
  ELSE NULL

\* variant of final_status that only looks at whether results came in
final_status_anyResult(results) ==
  IF \A c \in DOMAIN results : results[c] \in TERMINAL_STATUSES THEN "completed" ELSE "partial"

\* step 7 of launch_batch: completed if all polled results are completed
final_status(results) ==
  IF \A c \in DOMAIN results : results[c] = "completed" THEN "completed" ELSE "partial"

\* launch_batch is called; the count and cost guards are evaluated
BatchBegin ==
  \E specs \in SUBSET BatchSpecs : \E max_instances \in MaxInstancesValues :
  \E max_cost \in MaxCostValues : \E cost \in [specs -> SpecCosts] :
    LET error == launch_batch_guard(specs, max_instances, max_cost, cost)
    IN /\ batch.pc = "idle"
       /\ batch' = [IdleBatch EXCEPT !.pc = IF error # NULL THEN "raised" ELSE "launch",
                                     !.specs = specs, !.max_instances = max_instances,
                                     !.max_cost = max_cost, !.cost = cost,
                                     !.raised = error]
       /\ UNCHANGED <<batchFile, call, instances, runState, projectState, exitCodes,
                      provVars, reapVars, mcpVars, dashVars, idxVars, fileVars>>

\* the keyword parameters run() declares (it takes no **kwargs)
run_parameters ==
  {"command", "backend", "backend_name", "project_root", "spec_file", "instance_type",
   "data_dirs", "sync_back", "local_results_dir", "use_spot", "max_hours", "detach",
   "dry_run", "env_vars", "tags", "network_volume_id", "allow_duplicate", "image_tag",
   "gpu_mode"}
\* the keywords launch_batch passes to remote.run
launch_batch_keywords ==
  {"command", "backend", "backend_name", "project_root", "spec_file", "instance_type",
   "data_dirs", "sync_back", "local_results_dir", "use_spot", "max_hours", "detach",
   "env_vars", "gpu_mode", "image_tag", "batch_id"}
\* the keys of the state dict run() saves for a run
run_state_keys ==
  {"run_id", "backend", "instance_type", "command", "spec_file", "project_root",
   "data_dirs", "sync_back", "local_results_dir", "s3_prefix", "use_spot", "max_hours",
   "started_at", "status", "instance_id", "exit_code", "finished_at"}
\* the keys of the active_runs entry register_run writes
register_run_keys ==
  {"instance_id", "backend", "instance_type", "spec_file", "launched_at", "max_hours",
   "registered_at"}

\* step 4 of launch_batch: remote.run(spec_file=spec, detach=True,
\* batch_id=batch_id) for the next spec, against a run() that declares the
\* given parameters.  A keyword run() does not declare makes the call raise
\* TypeError before run() does anything.  Otherwise the detached run returns
\* with its instance launched, its state saved and the run registered in the
\* project state, or run() raises; either error leaves launch_batch.
BatchLaunch(parameters) ==
  \E spec \in batch.specs : \E ok \in BOOLEAN :
    LET c == RunOfSpec(spec)
    IN /\ batch.pc = "launch"
       /\ c \notin batch.runs
       /\ IF ~(launch_batch_keywords \subseteq parameters)
          THEN /\ batch' = [batch EXCEPT !.run_calls = @ + 1, !.last_call = spec,
                                         !.pc = "raised", !.raised = "TypeError"]
               /\ UNCHANGED <<instances, runState, projectState>>
          ELSE IF ok
          THEN /\ instances' = Append(instances, TaggedInstance(c, spec, DEFAULT_MAX_HOURS))
               /\ runState' = [runState EXCEPT ![c] =
                                 [NoRunState EXCEPT !.status = "running",
                                                    !.instance_id = Len(instances) + 1]]
               /\ projectState' = projectState \cup {c}
               /\ batch' = [batch EXCEPT !.run_calls = @ + 1, !.last_call = spec,
                                         !.runs = @ \cup {c}]
          ELSE /\ runState' = [runState EXCEPT ![c] = [NoRunState EXCEPT !.status = "error"]]
               /\ batch' = [batch EXCEPT !.run_calls = @ + 1, !.last_call = spec,
                                         !.pc = "raised", !.raised = "RunError"]
               /\ UNCHANGED <<instances, projectState>>
       /\ UNCHANGED <<batchFile, call, exitCodes, provVars, reapVars, mcpVars, dashVars, idxVars, fileVars>>

\* step 5 of launch_batch: the initial batch state is saved (temp file and
\* os.replace) once every spec is launched
BatchSaveInitial ==
  /\ batch.pc = "launch"
  /\ batch.runs = {RunOfSpec(spec) : spec \in batch.specs}
  /\ batchFile' = [status |-> "running", results |-> <<>>]
  /\ batch' = [batch EXCEPT !.pc = "poll", !.pending_runs = batch.runs,
                            !.state = [status |-> "running", results |-> <<>>]]
  /\ UNCHANGED <<call, instances, runState, projectState, exitCodes,
                 provVars, reapVars, mcpVars, dashVars, idxVars, fileVars>>

\* step 6 of launch_batch: one pending run is polled; a run whose returned
\* status is in TERMINAL_STATUSES is recorded in results and dropped from
\* pending_runs
BatchPoll ==
  \E c \in batch.pending_runs :
    LET poll_result == PollStatus(c)
        status == poll_result.returned
    IN /\ batch.pc = "poll"
       /\ runState' = [runState EXCEPT ![c] = poll_result.saved]
       /\ batch' = IF status \in TERMINAL_STATUSES
                   THEN [batch EXCEPT !.results = [x \in DOMAIN @ \cup {c} |->
                                                     IF x = c THEN status ELSE @[x]],
                                      !.pending_runs = @ \ {c},
                                      !.last_poll = [x \in DOMAIN @ \cup {c} |->
                                                       IF x = c THEN status ELSE @[x]]]
                   ELSE [batch EXCEPT !.last_poll = [x \in DOMAIN @ \cup {c} |->
                                                       IF x = c THEN status ELSE @[x]]]
       /\ UNCHANGED <<batchFile, call, instances, projectState, exitCodes,
                      provVars, reapVars, mcpVars, dashVars, idxVars, fileVars>>

\* step 7 of launch_batch: the final status and the results are saved and
\* the state is returned
BatchFinalize ==
  LET final == [status |-> final_status(batch.results), results |-> batch.results]
  IN /\ batch.pc = "poll"
     /\ batch.pending_runs = {}
     /\ batchFile' = final
     /\ batch' = [batch EXCEPT !.pc = "returned", !.state = final]
     /\ UNCHANGED <<call, instances, runState, projectState, exitCodes,
                    provVars, reapVars, mcpVars, dashVars, idxVars, fileVars>>

\* the dispatcher process is killed while launch_batch runs
BatchCrash ==
  /\ batch.pc \in {"launch", "poll"}
  /\ batch' = [batch EXCEPT !.pc = "crashed"]
  /\ UNCHANGED <<batchFile, call, instances, runState, projectState, exitCodes,
                 provVars, reapVars, mcpVars, dashVars, idxVars, fileVars>>

InitBatch ==
  /\ batch = IdleBatch
  /\ batchFile = NoBatchFile

InitCloud ==
  /\ call = [c \in Calls |-> IdleCall]
  /\ instances = <<>>
  /\ runState = [c \in Calls |-> NoRunState]
  /\ projectState = {}
  /\ exitCodes = [c \in Calls |-> NONE]

(***************************************************************************)
(* Part IV.  The MCP server (src/mcp/server.py).                           *)
(*                                                                         *)
(* IV.1  The two transports.  One JSON-RPC request is sent to an HTTP      *)
(* server (MCPHandler.do_POST) and to a stdio server (run_stdio) that were *)
(* started with the same configuration; each transport parses it, checks   *)
(* it, dispatches it and writes its answer.  What the tool does once       *)
(* call_tool has found it is an input: it returns a result or raises.      *)
(*                                                                         *)
(* A text is a sequence of characters.  A character is the number of bytes *)
(* of its UTF-8 encoding; 0 is a lone surrogate, which str.encode("utf-8") *)
(* refuses, errors="replace" turns into "?" and json.dumps with            *)
(* ensure_ascii writes as a \uXXXX escape.                                 *)
(***************************************************************************)
\* longest text of a request id, a tool result or an error message
MaxTextLen == 2

Characters == {1, 3, 0}

Texts == UNION {[1..n -> Characters] : n \in 0..MaxTextLen}

\* values of --max-output-bytes: load_config keeps it at 1 or more
MaxOutputBytesValues == {1, 4}

\* the token the server was configured with, as an Authorization header
ExpectedAuth == "Bearer tok"

\* Authorization headers of a request; "" is a request without the header
AuthHeaders == {ExpectedAuth, "Bearer bad", "tok", ""}

FireAndForgetTools ==
  {"kit.tdd", "kit.research_cycle", "kit.research_full", "kit.research_program", "kit.math"}

ProcessTools == {"kit.active", "kit.kill"}

\* the tools call_tool runs inside "with self._lock"
LockedTools ==
  {"orchestrator.run", "orchestrator.request_create", "orchestrator.pump",
   "orchestrator.run_info", "orchestrator.query_log",
   "kit.status", "kit.runs", "kit.capsule", "kit.research_status"}

ToolNames == FireAndForgetTools \cup ProcessTools \cup {"kit.gc"} \cup LockedTools

\* what the tool of a tools/call does: it returns a result that carries the
\* text, or raises an exception whose message is the text
Behaviours ==
  [kind : {"return", "MCPToolError"}, text : Texts]
    \cup [kind : {"ValueError", "Exception"}, text : {<<>>}]

ErrorCode(n) == 0 - n

\* text.encode("utf-8", errors="replace"): a lone surrogate becomes "?"
encode_replace(text) == [i \in DOMAIN text |-> IF text[i] = 0 THEN 1 ELSE text[i]]

RECURSIVE byte_len(_)
\* number of bytes of an encoded text
byte_len(encoded) ==
  IF encoded = <<>> THEN 0 ELSE Head(encoded) + byte_len(Tail(encoded))

\* whether text.encode("utf-8") succeeds
utf8_encodable(text) == \A i \in DOMAIN text : text[i] # 0

\* the text unchanged if its encoding fits; else the first limit bytes of the
\* encoding, decoded with errors="ignore", which drops a character cut in two
cap_text_bytes(text, limit) ==
  LET encoded == encode_replace(text)
      fits(k) == byte_len(SubSeq(encoded, 1, k)) <= limit
      whole == CHOOSE k \in 0..Len(encoded) : fits(k) /\ (k < Len(encoded) => ~fits(k + 1))
  IN  IF byte_len(encoded) <= limit THEN text ELSE SubSeq(encoded, 1, whole)

RECURSIVE escape_ascii(_)
\* ensure_ascii: an ASCII character stays, any other becomes the six
\* ASCII characters of a \uXXXX escape
escape_ascii(text) ==
  IF text = <<>> THEN <<>>
  ELSE (IF Head(text) = 1 THEN <<1>> ELSE <<1, 1, 1, 1, 1, 1>>) \o escape_ascii(Tail(text))

\* json.dumps(result, sort_keys=True) of a result that carries the text:
\* the escaped text between the braces of the object
json_dumps(result) == <<1>> \o escape_ascii(result) \o <<1>>

\* a JSON-RPC request as a client sends it
Requests ==
  LET defaults == [path |-> "/mcp", auth |-> ExpectedAuth, body |-> "object",
                   id |-> <<1>>, method |-> "ping", params |-> "absent",
                   name |-> NULL, arguments |-> "absent"]
      bodies == {[defaults EXCEPT !.body = b] : b \in {"invalid", "array"}}
      plain == {[defaults EXCEPT !.id = i, !.method = m, !.params = p] :
                  i \in {<<1>>, <<0>>},
                  m \in {NULL, "initialize", "notifications/initialized", "tools/list",
                         "ping", "nope"},
                  p \in {"absent", "null", "object", "array"}}
      calls == {[defaults EXCEPT !.id = i, !.method = "tools/call", !.params = p] :
                  i \in {<<1>>, <<0>>}, p \in {"absent", "null", "array"}}
      tools == {[defaults EXCEPT !.id = i, !.method = "tools/call", !.params = "object",
                                 !.name = n, !.arguments = a] :
                  i \in {<<1>>, <<0>>}, n \in {NULL, "kit.active", "kit.gc", "nope"},
                  a \in {"absent", "null", "object", "array"}}
      posted == bodies \cup plain \cup calls \cup tools
  IN  {[r EXCEPT !.auth = a] : r \in posted, a \in AuthHeaders}
        \cup {[r EXCEPT !.path = "/other"] : r \in posted}

\* the answer of a transport that has not read the request yet
Unanswered ==
  [state |-> "pending", status |-> NONE, keys |-> {}, result_keys |-> {}, code |-> NONE,
   id |-> <<>>, text |-> <<>>, structured |-> <<>>, dispatched |-> FALSE, called |-> FALSE]

\* {"error": ...}: the body of a 4xx answer
http_error(status) ==
  [Unanswered EXCEPT !.state = "written", !.status = status, !.keys = {"error"}]

jsonrpc_result(request_id, result_keys, text, structured) ==
  [Unanswered EXCEPT !.state = "written", !.status = 200,
                     !.keys = {"jsonrpc", "id", "result"}, !.result_keys = result_keys,
                     !.id = request_id, !.text = text, !.structured = structured]

jsonrpc_error(request_id, code) ==
  [Unanswered EXCEPT !.state = "written", !.status = 200,
                     !.keys = {"jsonrpc", "id", "error"}, !.code = code, !.id = request_id]

is_authorized_anyBearer(auth) == auth # "" /\ auth # "tok"

is_authorized(auth) == auth = ExpectedAuth

\* json.dumps(payload, ensure_ascii=False).encode("utf-8") raises
\* UnicodeEncodeError on a lone surrogate, before anything is sent
write_json(payload) ==
  IF utf8_encodable(payload.id) /\ utf8_encodable(payload.text)
       /\ utf8_encodable(payload.structured)
  THEN payload
  ELSE [Unanswered EXCEPT !.state = "escaped", !.dispatched = payload.dispatched,
                          !.called = payload.called]

\* call_tool once dispatch has checked the name and the arguments: an unknown
\* tool is a ValueError, a known tool does what the behaviour says
call_tool(name, behaviour) ==
  IF name \in ToolNames THEN behaviour ELSE [kind |-> "ValueError", text |-> <<>>]

\* the tool result of tools/call: the capped JSON text and the result itself
tool_result(request_id, result, max_output_bytes) ==
  jsonrpc_result(request_id, {"content", "structuredContent"},
                 cap_text_bytes(json_dumps(result), max_output_bytes), result)

\* the result that reports an MCPToolError
tool_error(request_id, message, max_output_bytes) ==
  jsonrpc_result(request_id, {"isError", "content"},
                 cap_text_bytes(message, max_output_bytes), <<>>)

\* what _dispatch_jsonrpc returns or raises
dispatch_jsonrpc(request, max_output_bytes, behaviour) ==
  LET returns(payload) == [raised |-> NULL, payload |-> payload, called |-> FALSE]
      raises(kind) == [raised |-> kind, payload |-> Unanswered, called |-> FALSE]
      outcome == call_tool(request.name, behaviour)
  IN  IF request.method \in {"initialize", "notifications/initialized", "tools/list"}
      THEN returns(jsonrpc_result(request.id, {}, <<>>, <<>>))
      ELSE IF request.method = "tools/call"
      THEN IF request.params # "object" \/ request.name = NULL THEN raises("ValueError")
           ELSE IF request.arguments = "array" THEN raises("ValueError")
           ELSE IF outcome.kind = "return"
           THEN [raised |-> NULL, called |-> TRUE,
                 payload |-> tool_result(request.id, outcome.text, max_output_bytes)]
           ELSE [raised |-> outcome.kind, called |-> TRUE,
                 payload |-> [Unanswered EXCEPT !.text = outcome.text]]
      ELSE IF request.method = "ping"
      THEN returns(jsonrpc_result(request.id, {}, <<>>, <<>>))
      ELSE returns(jsonrpc_error(request.id, ErrorCode(32601)))

\* MCPHandler.do_POST: the answer written, or the exception that escaped
do_POST(request, max_output_bytes, behaviour) ==
  LET d == dispatch_jsonrpc(request, max_output_bytes, behaviour)
      ran(payload) == [payload EXCEPT !.dispatched = TRUE, !.called = d.called]
  IN  IF request.path # "/mcp" THEN write_json(http_error(404))
      ELSE IF ~is_authorized(request.auth) THEN write_json(http_error(401))
      ELSE IF request.body # "object" THEN write_json(http_error(400))
      ELSE IF request.method = NULL
      THEN write_json(jsonrpc_error(request.id, ErrorCode(32600)))
      ELSE IF request.params = "array"
      THEN write_json(jsonrpc_error(request.id, ErrorCode(32602)))
      ELSE IF d.raised = "MCPToolError"
      THEN write_json(ran(tool_error(request.id, d.payload.text, max_output_bytes)))
      ELSE IF d.raised = "ValueError"
      THEN write_json(ran(jsonrpc_error(request.id, ErrorCode(32602))))
      ELSE IF d.raised = "Exception"
      THEN write_json(ran(jsonrpc_error(request.id, ErrorCode(32000))))
      ELSE write_json(ran(d.payload))

\* what _dispatch_stdio returns, or the exception that escapes it
dispatch_stdio(request, max_output_bytes, behaviour) ==
  LET returns(payload) == [raised |-> NULL, payload |-> payload, called |-> FALSE]
      called(payload) == [raised |-> NULL, payload |-> payload, called |-> TRUE]
      outcome == call_tool(request.name, behaviour)
  IN  IF request.method \in {"initialize", "notifications/initialized", "tools/list"}
      THEN returns(jsonrpc_result(request.id, {}, <<>>, <<>>))
      ELSE IF request.method = "tools/call"
      THEN IF request.params = "array"
           THEN [raised |-> "AttributeError", payload |-> Unanswered, called |-> FALSE]
           ELSE IF request.params # "object" \/ request.name = NULL
           THEN returns(jsonrpc_error(request.id, ErrorCode(32602)))
           ELSE IF request.arguments = "array"
           THEN returns(jsonrpc_error(request.id, ErrorCode(32602)))
           ELSE IF outcome.kind = "return"
           THEN called(tool_result(request.id, outcome.text, max_output_bytes))
           ELSE IF outcome.kind = "MCPToolError"
           THEN called(tool_error(request.id, outcome.text, max_output_bytes))
           ELSE IF outcome.kind = "ValueError"
           THEN called(jsonrpc_error(request.id, ErrorCode(32602)))
           ELSE called(jsonrpc_error(request.id, ErrorCode(32000)))
      ELSE IF request.method = "ping"
      THEN returns(jsonrpc_result(request.id, {}, <<>>, <<>>))
      ELSE returns(jsonrpc_error(request.id, ErrorCode(32601)))

\* one iteration of the loop of run_stdio: the line written to stdout with
\* json.dumps, which escapes every non-ASCII character, or the exception
\* that ends the loop
run_stdio(request, max_output_bytes, behaviour) ==
  LET d == dispatch_stdio(request, max_output_bytes, behaviour)
      written(payload) == [payload EXCEPT !.status = NONE]
  IN  IF request.body = "invalid" THEN written(jsonrpc_error(<<>>, ErrorCode(32700)))
      ELSE IF request.body # "object" THEN written(jsonrpc_error(<<>>, ErrorCode(32600)))
      ELSE IF request.method = NULL
      THEN written(jsonrpc_error(request.id, ErrorCode(32600)))
      ELSE IF d.raised # NULL
      THEN [Unanswered EXCEPT !.state = "escaped", !.dispatched = TRUE]
      ELSE written([d.payload EXCEPT !.dispatched = TRUE, !.called = d.called])

NoRequest ==
  [path |-> NULL, auth |-> "", body |-> "invalid", id |-> <<>>, method |-> NULL,
   params |-> "absent", name |-> NULL, arguments |-> "absent"]

DefaultBehaviour == [kind |-> "return", text |-> <<>>]

\* no request has been sent yet, or the last one is over
NoExchange ==
  [sent |-> FALSE, request |-> NoRequest, behaviour |-> DefaultBehaviour,
   max_output_bytes |-> 1, http |-> Unanswered, stdio |-> Unanswered]

\* whether the request gets as far as the body of a tool
ReachesTool(request) ==
  /\ request.body = "object" /\ request.method = "tools/call"
  /\ request.params = "object" /\ request.name \in ToolNames
  /\ request.arguments # "array"

nonMcpVars ==
  <<idxVars, fileVars, call, instances, runState, projectState, exitCodes,
    provVars, reapVars, batchVars, dashVars>>

facadeVars == <<thread, lock, background, signals>>

\* a client sends the same request to both servers
SendRequest ==
  /\ ~exchange.sent
  /\ \E request \in Requests, behaviour \in Behaviours,
        max_output_bytes \in MaxOutputBytesValues :
       /\ ReachesTool(request) \/ behaviour = DefaultBehaviour
       /\ exchange' = [NoExchange EXCEPT !.sent = TRUE, !.request = request,
                                         !.behaviour = behaviour,
                                         !.max_output_bytes = max_output_bytes]
  /\ UNCHANGED <<stdioServing, facadeVars, nonMcpVars>>

\* the HTTP server handles the request in do_POST
HttpPost ==
  /\ exchange.sent /\ exchange.http.state = "pending"
  /\ exchange' = [exchange EXCEPT !.http =
                    do_POST(exchange.request, exchange.max_output_bytes, exchange.behaviour)]
  /\ UNCHANGED <<stdioServing, facadeVars, nonMcpVars>>

\* the stdio server reads the request as a line; an exception that escapes
\* run_stdio ends the loop and the process
StdioLine ==
  /\ exchange.sent /\ exchange.stdio.state = "pending" /\ stdioServing
  /\ LET answer == run_stdio(exchange.request, exchange.max_output_bytes, exchange.behaviour)
     IN  /\ exchange' = [exchange EXCEPT !.stdio = answer]
         /\ stdioServing' = (answer.state # "escaped")
  /\ UNCHANGED <<facadeVars, nonMcpVars>>

\* both servers are done with the request: the client may send another
NextRequest ==
  /\ exchange.sent /\ exchange.http.state # "pending"
  /\ exchange.stdio.state # "pending" \/ ~stdioServing
  /\ exchange' = NoExchange
  /\ UNCHANGED <<stdioServing, facadeVars, nonMcpVars>>

InitTransports ==
  /\ exchange = NoExchange
  /\ stdioServing = TRUE

(***************************************************************************)
(* IV.2  The facade (MasterKitFacade.call_tool).  MCPServer is a           *)
(* ThreadingHTTPServer: every request runs do_POST in a thread of its own, *)
(* and all threads share one facade, its _lock and its _background.        *)
(***************************************************************************)
Threads == {"t1", "t2"}

\* number of background processes the facade launches
MaxLaunches == 1

\* the run_ids _make_run_id gives to the launches, in order
LaunchIds == 1..MaxLaunches

\* the run_id arguments of kit.kill: the launches, and one never launched
KillIds == 0..MaxLaunches

SignalNames == {"SIGTERM", "SIGKILL", "SIGHUP"}

ExitCodes == {0, 1}

\* the tools the threads call; "nope" is no tool
CalledTools ==
  {"kit.tdd", "kit.math", "kit.active", "kit.kill", "kit.gc", "kit.status",
   "orchestrator.run", "nope"}

NoProcess ==
  [state |-> "absent", exit_code |-> NONE, signalled |-> FALSE, session |-> NULL,
   group_signalled |-> FALSE]

\* subprocess.Popen: the child runs in a session of its own only if
\* start_new_session is set; otherwise it stays in the session and the
\* process group of the server
Popen(start_new_session) ==
  [NoProcess EXCEPT !.state = "running",
                    !.session = IF start_new_session THEN "own" ELSE "server"]

IdleThread ==
  [pc |-> "idle", name |-> NULL, valid |-> TRUE, run_id |-> 0, signal |-> "SIGTERM",
   held |-> FALSE, lock_seen |-> NULL, seen |-> NoProcess, sent |-> FALSE,
   raised |-> NULL, result |-> NULL, exit_code |-> NONE]

\* whether call_tool runs the tool inside "with self._lock"
needs_lock_always(name) == TRUE

needs_lock(name) == name \notin FireAndForgetTools \cup ProcessTools \cup {"kit.gc"}

\* the tools that write run state or use the dashboard database: the legacy
\* tools, the dashboard queries, and kit.gc (_reindex, _db_query, UPDATE runs)
DatabaseTools == LockedTools \cup {"kit.gc"}

\* thread t is in the part of call_tool that runs the tool
Ready(t) ==
  \/ thread[t].pc = "body"
  \/ thread[t].pc = "enter" /\ ~needs_lock(thread[t].name)

\* leaving call_tool ends the with block, if the thread is in one
release(t) == IF lock = t THEN NULL ELSE lock

\* the launches made and the launches that threads are about to make
Launching ==
  Cardinality({run_id \in LaunchIds : background[run_id].state # "absent"})
    + Cardinality({t \in Threads : /\ thread[t].pc \in {"enter", "body"}
                                   /\ thread[t].name \in FireAndForgetTools
                                   /\ thread[t].valid})

\* a handler thread calls facade.call_tool(name, arguments)
CallToolBegin(t) ==
  /\ thread[t].pc = "idle"
  /\ \E name \in CalledTools, valid \in BOOLEAN, run_id \in KillIds, signal \in SignalNames :
       /\ name # "kit.kill" => run_id = 0 /\ signal = "SIGTERM"
       /\ name \notin FireAndForgetTools => valid
       /\ name \in FireAndForgetTools /\ valid => Launching < MaxLaunches
       /\ thread' = [thread EXCEPT ![t] = [IdleThread EXCEPT !.pc = "enter", !.name = name,
                                             !.valid = valid, !.run_id = run_id,
                                             !.signal = signal]]
  /\ UNCHANGED <<lock, background, signals, exchange, stdioServing, nonMcpVars>>

\* with self._lock: the thread waits until the lock is free
LockAcquire(t) ==
  /\ thread[t].pc = "enter" /\ needs_lock(thread[t].name)
  /\ lock = NULL
  /\ lock' = t
  /\ thread' = [thread EXCEPT ![t].pc = "body", ![t].held = TRUE]
  /\ UNCHANGED <<background, signals, exchange, stdioServing, nonMcpVars>>

\* _launch_background: Popen starts the child and the call returns
LaunchBackground(t) ==
  /\ Ready(t) /\ thread[t].name \in FireAndForgetTools
  /\ IF ~thread[t].valid
     THEN /\ thread' = [thread EXCEPT ![t].pc = "done", ![t].raised = "ValueError",
                                      ![t].lock_seen = lock]
          /\ UNCHANGED background
     ELSE \E run_id \in LaunchIds :
            /\ background[run_id].state = "absent"
            /\ \A other \in LaunchIds : other < run_id => background[other].state # "absent"
            /\ background' = [background EXCEPT ![run_id] = Popen(FALSE)]
            /\ thread' = [thread EXCEPT ![t].pc = "done", ![t].result = "launched",
                                        ![t].run_id = run_id, ![t].lock_seen = lock,
                                        ![t].seen = background'[run_id]]
  /\ lock' = release(t)
  /\ UNCHANGED <<signals, exchange, stdioServing, nonMcpVars>>

\* _tool_kit_active: a snapshot of _background
KitActive(t) ==
  /\ Ready(t) /\ thread[t].name = "kit.active"
  /\ thread' = [thread EXCEPT ![t].pc = "done", ![t].result = "processes",
                              ![t].lock_seen = lock]
  /\ lock' = release(t)
  /\ UNCHANGED <<background, signals, exchange, stdioServing, nonMcpVars>>

KitKill_signalFirst(t) ==
  LET proc == IF thread[t].run_id \in LaunchIds THEN background[thread[t].run_id]
              ELSE NoProcess
  IN  /\ Ready(t) /\ thread[t].name = "kit.kill"
      /\ signals' = signals \cup {thread[t].run_id}
      /\ thread' = [thread EXCEPT ![t].pc = "done", ![t].seen = proc, ![t].sent = TRUE,
                                  ![t].result = "signal_sent", ![t].lock_seen = lock]
      /\ lock' = release(t)
      /\ UNCHANGED <<background, exchange, stdioServing, nonMcpVars>>

\* _tool_kit_kill
KitKill(t) ==
  LET run_id == thread[t].run_id
      proc == IF run_id \in LaunchIds THEN background[run_id] ELSE NoProcess
      done(fields) == [fields EXCEPT !.pc = "done", !.seen = proc, !.lock_seen = lock]
  IN  /\ Ready(t) /\ thread[t].name = "kit.kill"
      /\ IF thread[t].signal \notin {"SIGTERM", "SIGKILL"}
         THEN /\ thread' = [thread EXCEPT ![t] = done([@ EXCEPT !.raised = "ValueError"])]
              /\ UNCHANGED <<background, signals>>
         ELSE IF proc.state = "absent"
         THEN /\ thread' = [thread EXCEPT ![t] = done([@ EXCEPT !.raised = "MCPToolError"])]
              /\ UNCHANGED <<background, signals>>
         ELSE IF proc.state = "exited"
         THEN /\ thread' = [thread EXCEPT ![t] =
                              done([@ EXCEPT !.result = "already_finished",
                                             !.exit_code = proc.exit_code])]
              /\ UNCHANGED <<background, signals>>
         ELSE /\ thread' = [thread EXCEPT ![t] =
                              done([@ EXCEPT !.result = "signal_sent", !.sent = TRUE])]
              /\ signals' = signals \cup {run_id}
              /\ background' = [background EXCEPT ![run_id].signalled = TRUE]
      /\ lock' = release(t)
      /\ UNCHANGED <<exchange, stdioServing, nonMcpVars>>

\* _tool_kit_gc, step 1: _reindex rebuilds the dashboard database
GcReindex(t) ==
  /\ Ready(t) /\ thread[t].name = "kit.gc"
  /\ thread' = [thread EXCEPT ![t].pc = "gc_mark", ![t].lock_seen = lock]
  /\ UNCHANGED <<lock, background, signals, exchange, stdioServing, nonMcpVars>>

\* _tool_kit_gc, steps 2 and 3: the running rows are read and the stale ones
\* are updated
GcMark(t) ==
  /\ thread[t].pc = "gc_mark"
  /\ thread' = [thread EXCEPT ![t].pc = "done", ![t].result = "cleaned"]
  /\ lock' = release(t)
  /\ UNCHANGED <<background, signals, exchange, stdioServing, nonMcpVars>>

\* a tool of the with block runs and returns or raises; a name that is no
\* tool falls out of the block to the ValueError
LockedTool(t) ==
  /\ thread[t].pc = "body" /\ thread[t].name \notin FireAndForgetTools \cup ProcessTools \cup {"kit.gc"}
  /\ \E raised \in {NULL, "MCPToolError"} :
       thread' = [thread EXCEPT ![t].pc = "done", ![t].lock_seen = lock,
                    ![t].raised = IF thread[t].name \in LockedTools THEN raised ELSE "ValueError",
                    ![t].result = IF thread[t].name \in LockedTools /\ raised = NULL
                                  THEN "result" ELSE NULL]
  /\ lock' = release(t)
  /\ UNCHANGED <<background, signals, exchange, stdioServing, nonMcpVars>>

\* the handler thread has written its answer and ends
CallToolEnd(t) ==
  /\ thread[t].pc = "done"
  /\ thread' = [thread EXCEPT ![t] = IdleThread]
  /\ UNCHANGED <<lock, background, signals, exchange, stdioServing, nonMcpVars>>

\* a child process terminates
ChildExits ==
  /\ \E run_id \in LaunchIds, code \in ExitCodes :
       /\ background[run_id].state = "running"
       /\ background' = [background EXCEPT ![run_id].state = "exited",
                                           ![run_id].exit_code = code]
  /\ UNCHANGED <<thread, lock, signals, exchange, stdioServing, nonMcpVars>>

\* a signal is sent to the session or the process group of the server (the
\* terminal's Ctrl-C, a kill of the group): every running process of the
\* session receives it
SessionSignalled ==
  /\ \E run_id \in LaunchIds :
       background[run_id].state = "running" /\ ~background[run_id].group_signalled
  /\ background' = [run_id \in LaunchIds |->
                      IF background[run_id].state = "running"
                           /\ background[run_id].session = "server"
                      THEN [background[run_id] EXCEPT !.group_signalled = TRUE]
                      ELSE background[run_id]]
  /\ UNCHANGED <<thread, lock, signals, exchange, stdioServing, nonMcpVars>>

InitFacade ==
  /\ thread = [t \in Threads |-> IdleThread]
  /\ lock = NULL
  /\ background = [run_id \in LaunchIds |-> NoProcess]
  /\ signals = {}

InitMcp == InitTransports /\ InitFacade

(***************************************************************************)
(* Part V.  The dashboard's readers and the steps of kit.gc.               *)
(*                                                                         *)
(* V.1  Thread expansion (dashboard/payloads.py).  run_detail_payload      *)
(* reads the runs of the project, finds the root of the run by following   *)
(* parent_run_id, and returns the runs that have the same root.            *)
(***************************************************************************)
\* the runs of the project in the runs table, in the order of the SELECT
ThreadRuns == <<"r1", "r2", "r3">>

ThreadRunIds == {ThreadRuns[i] : i \in DOMAIN ThreadRuns}

\* values of the column parent_run_id: NULL, a run of the project, or a run
\* that the project's rows do not hold
ParentValues == ThreadRunIds \cup {NULL, "r9"}

IdleDetail ==
  [pc |-> "idle", run_id |-> NULL, parents |-> [r \in ThreadRunIds |-> NULL],
   queue |-> <<>>, target |-> NULL, current |-> NULL, seen |-> {}, iterations |-> 0,
   roots |-> [r \in ThreadRunIds |-> NULL], root |-> NULL, thread_runs |-> {}]

\* run_detail_payload(project_id, run_id): the rows are loaded and
\* _root_for_run(run_id, parents) is entered
RunDetailBegin ==
  /\ detail.pc = "idle"
  /\ \E run_id \in ThreadRunIds, parents \in [ThreadRunIds -> ParentValues] :
       detail' = [IdleDetail EXCEPT !.pc = "root", !.run_id = run_id, !.parents = parents,
                                    !.queue = ThreadRuns, !.target = run_id,
                                    !.current = run_id]
  /\ UNCHANGED <<gcCall, idxVars, fileVars, call, instances, runState, projectState,
                 exitCodes, provVars, reapVars, batchVars, mcpVars>>

\* what a call of _root_for_run that returns result leads to: the root of the
\* run, then the root of each row, then the thread
root_returned(d, result) ==
  LET first == d.root = NULL
      root == IF first THEN result ELSE d.root
      roots == IF first THEN d.roots ELSE [d.roots EXCEPT ![d.target] = result]
      queue == IF first THEN d.queue ELSE Tail(d.queue)
  IN  IF queue = <<>>
      THEN [d EXCEPT !.pc = "done", !.root = root, !.roots = roots, !.queue = queue,
                     !.thread_runs = {r \in ThreadRunIds : roots[r] = root}]
      ELSE [d EXCEPT !.root = root, !.roots = roots, !.queue = queue,
                     !.target = Head(queue), !.current = Head(queue), !.seen = {},
                     !.iterations = 0]

RootStep_noSeen ==
  /\ detail.pc = "root"
  /\ LET d == [detail EXCEPT !.iterations = @ + 1]
         parent == detail.parents[detail.current]
     IN  detail' = IF parent = NULL \/ parent \notin ThreadRunIds
                   THEN root_returned(d, detail.current)
                   ELSE [d EXCEPT !.current = parent]
  /\ UNCHANGED <<gcCall, idxVars, fileVars, call, instances, runState, projectState,
                 exitCodes, provVars, reapVars, batchVars, mcpVars>>

\* one iteration of the loop of _root_for_run
RootStep ==
  /\ detail.pc = "root"
  /\ LET d == [detail EXCEPT !.iterations = @ + 1]
         parent == detail.parents[detail.current]
     IN  detail' = IF detail.current \in detail.seen
                   THEN root_returned(d, detail.target)
                   ELSE IF parent = NULL \/ parent \notin ThreadRunIds
                   THEN root_returned(d, detail.current)
                   ELSE [d EXCEPT !.current = parent,
                                  !.seen = detail.seen \cup {detail.current}]
  /\ UNCHANGED <<gcCall, idxVars, fileVars, call, instances, runState, projectState,
                 exitCodes, provVars, reapVars, batchVars, mcpVars>>

\* run_detail_payload returns the run, the root and the thread
RunDetailEnd ==
  /\ detail.pc = "done"
  /\ detail' = IdleDetail
  /\ UNCHANGED <<gcCall, idxVars, fileVars, call, instances, runState, projectState,
                 exitCodes, provVars, reapVars, batchVars, mcpVars>>

InitDetail == detail = IdleDetail

(***************************************************************************)
(* V.2  The steps of kit.gc (MasterKitFacade._tool_kit_gc).  call_tool     *)
(* runs kit.gc outside the facade lock, and the workflows write events and *)
(* call upsert_single_run from processes of their own: between the SELECT  *)
(* of the running rows and the UPDATE of the stale ones the table changes. *)
(***************************************************************************)
IdleGc == [pc |-> "idle", dry_run |-> FALSE, stale |-> {}]

cloudAndFleet ==
  <<call, instances, runState, projectState, exitCodes, provVars, reapVars, batchVars, mcpVars>>

\* steps 1 and 2: _reindex, the SELECT of the running rows and the stale list
GcSelect ==
  /\ gcCall.pc = "idle"
  /\ \E dry_run \in BOOLEAN :
       LET indexed == cmd_index(registry, Db, NULL)
       IN  /\ registry' = indexed.registry
           /\ SetDb(indexed.db)
           /\ gcCall' = [pc |-> "update", dry_run |-> dry_run,
                         stale |-> GcStale(indexed.db.runs)]
           /\ lastOp' = [NoOp EXCEPT !.op = "gc_select", !.dry_run = dry_run]
  /\ UNCHANGED <<events, manifests, alive, now, detail, fileVars, cloudAndFleet>>

\* the UPDATE of step 3 on one stale entry: WHERE project_id = ? AND run_id = ?
GcUpdateRow(runs, k) == IF k \in DOMAIN runs THEN GcMarkFailed(runs[k]) ELSE runs[k]

\* step 3: the stale entries are marked failed and the call returns
GcUpdate ==
  /\ gcCall.pc = "update"
  /\ LET keys == {<<e.project_id, e.run_id>> : e \in gcCall.stale}
     IN  dbRuns' = IF gcCall.dry_run THEN dbRuns
                   ELSE [k \in DOMAIN dbRuns |->
                           IF k \in keys THEN GcUpdateRow(dbRuns, k) ELSE dbRuns[k]]
  /\ lastOp' = [NoOp EXCEPT !.op = "gc_update", !.dry_run = gcCall.dry_run,
                            !.stale_runs = gcCall.stale]
  /\ gcCall' = IdleGc
  /\ UNCHANGED <<events, manifests, alive, now, registry, dbProjects, dbRequests, detail,
                 fileVars, cloudAndFleet>>

InitGcCall == gcCall = IdleGc

Init == InitIndex /\ InitFiles /\ InitCloud /\ InitProvision /\ InitReaper /\ InitBatch /\ InitMcp
          /\ InitDetail /\ InitGcCall

\* the run lifecycle: the workflow of run r1 writes its files and dies, the
\* clock advances, and the index is written by upsert_single_run, the reindex
\* and kit.gc in any order
Next ==
  \/ WriteEvent({"r1"}, "run")
  \/ ProcessExit
  \/ Tick
  \/ UpsertSingleRun({"r1"})
  \/ CmdIndex({NULL})
  \/ Gc

Spec == Init /\ [][Next]_vars

\* the projects of the index: two projects with one run each are registered,
\* unregistered and reindexed through every reindex entry point
NextProjects ==
  \/ WriteEvent({"r1", "r3"}, "start_finish")
  \/ RegisterProject(Labels)
  \/ UnregisterProject
  \/ UpsertSingleRun({"r1", "r3"})
  \/ CmdIndex(Projects \cup {NULL})
  \/ CmdServe
  \/ ApiRefresh
  \/ IndexProjects

SpecProjects == Init /\ [][NextProjects]_vars

\* repeated upsert_single_run of one run while its files grow
NextUpsert ==
  \/ WriteEvent({"r1"}, "run")
  \/ WriteManifest({"r1"})
  \/ Tick
  \/ UpsertSingleRun({"r1"})

SpecUpsert == Init /\ [][NextUpsert]_vars

\* incremental indexing of one run: upsert_single_run runs after each append
NextIncremental ==
  \/ WriteEvent({"r1"}, "stream") /\ Upserted
  \/ WriteManifest({"r1"})
  \/ Tick
  \/ UpsertSingleRun({"r1"})

SpecIncremental == Init /\ [][NextIncremental]_vars

\* the requests of one project: request events in the streams of r1 and r2
NextRequests ==
  \/ WriteEvent({"r1", "r2"}, "request")
  \/ Tick
  \/ UpsertSingleRun({"r1", "r2"})
  \/ CmdIndex({NULL})

SpecRequests == Init /\ [][NextRequests]_vars

\* the state files: every writer saves, and may be killed at any point
NextFiles ==
  \/ WriteTextOpen(WriteTextFiles)
  \/ WriteTextWrite(WriteTextFiles)
  \/ WriteTextClose(WriteTextFiles)
  \/ ReplaceOpen(ReplaceFiles)
  \/ ReplaceWrite(ReplaceFiles)
  \/ ReplaceRename(ReplaceFiles)
  \/ ReplaceFails(ReplaceFiles)
  \/ Crash

SpecFiles == Init /\ [][NextFiles]_vars

\* the cloud launcher: two calls of run() and the instances they launch
NextCloud ==
  \/ RunBegin
  \/ RunDuplicateCheck
  \/ RunUpload
  \/ RunProvision
  \/ RunRecordInstance
  \/ RunWaitReady
  \/ RunPoll
  \/ RunPollGrace
  \/ RunRetrieve
  \/ RunExcept
  \/ InstanceStops

SpecCloud == Init /\ [][NextCloud]_vars

\* the commands on a launched run: one call of run(), attached or detached,
\* with cloud-run status (poll_status) and cloud-run terminate (terminate_run)
\* issued at any time
NextCloudOps ==
  \/ RunBegin /\ call'["c2"] = IdleCall
  \/ RunDuplicateCheck
  \/ RunUpload
  \/ RunProvision
  \/ RunRecordInstance
  \/ RunWaitReady
  \/ RunPoll
  \/ RunPollGrace
  \/ RunRetrieve
  \/ RunExcept
  \/ poll_status
  \/ terminate_run
  \/ InstanceStops
  \/ MarkerArrives

SpecCloudOps == Init /\ [][NextCloudOps]_vars

\* one call of run() with the hours its poll loop spends, while the instance
\* may stop with or without a marker
NextCloudPoll ==
  \/ RunBegin /\ call'["c2"] = IdleCall
  \/ RunDuplicateCheck
  \/ RunUpload
  \/ RunProvision
  \/ RunRecordInstance
  \/ RunWaitReady
  \/ RunPoll
  \/ RunPollHour
  \/ RunPollGrace
  \/ RunRetrieve
  \/ RunExcept
  \/ InstanceStops

SpecCloudPoll == Init /\ [][NextCloudPoll]_vars

\* the commands on a launched run together with gc_stale_runs
NextCloudGc ==
  \/ RunBegin /\ call'["c2"] = IdleCall
  \/ RunDuplicateCheck
  \/ RunUpload
  \/ RunProvision
  \/ RunRecordInstance
  \/ RunWaitReady
  \/ RunPoll
  \/ RunPollGrace
  \/ RunRetrieve
  \/ RunExcept
  \/ poll_status
  \/ terminate_run
  \/ gc_stale_runs
  \/ InstanceStops
  \/ MarkerArrives

SpecCloudGc == Init /\ [][NextCloudGc]_vars

\* the reaper: instances are launched and stop, time passes, and reap() is
\* called, dry or not
NextReaper ==
  \/ InstanceLaunched
  \/ InstanceStops
  \/ HoursPass
  \/ Reap

SpecReaper == Init /\ [][NextReaper]_vars

\* batch dispatch with a run() that accepts batch_id, so that the launches
\* succeed and the poll loop is entered: one call of launch_batch, while the
\* instances of its runs stop, runs are terminated by hand, and the dispatcher
\* may be killed
NextBatch ==
  \/ BatchBegin
  \/ BatchLaunch(run_parameters \cup {"batch_id"})
  \/ BatchSaveInitial
  \/ BatchPoll
  \/ BatchFinalize
  \/ BatchCrash
  \/ InstanceStops
  \/ terminate_run

SpecBatch == Init /\ [][NextBatch]_vars

\* batch dispatch against run() as remote.py declares it
NextBatchLaunch ==
  \/ BatchBegin
  \/ BatchLaunch(run_parameters)
  \/ BatchSaveInitial
  \/ BatchFinalize
  \/ BatchCrash

SpecBatchLaunch == Init /\ [][NextBatchLaunch]_vars

\* the registry: projects are registered, with labels that may resolve to
\* the empty string, and unregistered, and "dashboard index" seeds the
\* registry through upsert_registry_project when it loads no entry
RegisterLabels == Labels \cup {"", "B"}

NextRegistry ==
  \/ RegisterProject(RegisterLabels)
  \/ UnregisterProject
  \/ CmdIndex({NULL})

SpecRegistry == Init /\ [][NextRegistry]_vars

\* thread expansion: run_detail_payload is called for every run and every
\* parent relation of three runs
NextDetail ==
  \/ RunDetailBegin
  \/ RootStep
  \/ RunDetailEnd

SpecDetail == Init /\ [][NextDetail]_vars

\* kit.gc in steps, while a workflow writes the events of run r1, calls
\* upsert_single_run and dies, and the clock advances
NextGcRace ==
  \/ WriteEvent({"r1"}, "run")
  \/ ProcessExit
  \/ Tick
  \/ UpsertSingleRun({"r1"})
  \/ GcSelect
  \/ GcUpdate

SpecGcRace == Init /\ [][NextGcRace]_vars

\* the two transports: requests are answered by the HTTP server and by the
\* stdio server
NextTransports ==
  \/ SendRequest
  \/ HttpPost
  \/ StdioLine
  \/ NextRequest

SpecTransports == Init /\ [][NextTransports]_vars

\* the facade: two handler threads call tools while the children run
NextFacade ==
  \/ \E t \in Threads :
       \/ CallToolBegin(t)
       \/ LockAcquire(t)
       \/ LaunchBackground(t)
       \/ KitActive(t)
       \/ KitKill(t)
       \/ GcReindex(t)
       \/ GcMark(t)
       \/ LockedTool(t)
       \/ CallToolEnd(t)
  \/ ChildExits
  \/ SessionSignalled

SpecFacade == Init /\ [][NextFacade]_vars

\* provisioning: callers invoke AWSBackend.provision, concurrently and again,
\* while instances stop and client tokens expire
NextProvision ==
  \/ ProvisionBegin
  \/ ProvisionFindExisting
  \/ ProvisionRunInstances
  \/ ProvisionRetryOnDemand
  \/ ProvisionEnd
  \/ InstanceStops
  \/ TokenExpires

SpecProvision == Init /\ [][NextProvision]_vars


(***************************************************************************)
(* Properties of the index                                                 *)
(***************************************************************************)
TextColumns == {"parent_run_id", "kit", "status", "manifest_path", "host"}
IntColumns == {"started_at", "finished_at", "exit_code", "pid"}
RunColumns == TextColumns \cup IntColumns
RequestTextColumns == {"parent_run_id", "child_run_id", "from_kit", "status"}
RequestIntColumns == {"enqueued_ts", "completed_ts"}
RequestColumns == RequestTextColumns \cup RequestIntColumns

\* the column c of row is SQL NULL
IsNull(row, c) ==
  IF c \in IntColumns \cup RequestIntColumns THEN row[c] = NONE ELSE row[c] = NULL

\* what parse_run reads for run r from the files now on disk
OnDisk(r) == ParseRun(ProjectOf(r), r, events[r], manifests[r])
RunKey(r) == <<ProjectOf(r), r>>

\* C1: every runs row has status = 'running' if and only if its finished_at
\* is NULL, after any interleaving of upsert_single_run, reindex and gc.
C1_RunningIffUnfinished ==
  \A k \in DOMAIN dbRuns : (dbRuns[k].status = "running") <=> (dbRuns[k].finished_at = NONE)

\* C2: every runs row whose finished_at is set has status = 'ok' if and only
\* if its exit_code is 0, after any interleaving of upsert_single_run, reindex
\* and gc.
C2_OkIffExitZero ==
  \A k \in DOMAIN dbRuns :
    dbRuns[k].finished_at # NONE => ((dbRuns[k].status = "ok") <=> (dbRuns[k].exit_code = 0))

\* C3: when upsert_single_run is called repeatedly while the event stream of a
\* run grows, the row reflects the finished state once run_finished is in the
\* stream, and no column (parent_run_id included) that was non-NULL after an
\* earlier call is NULL after a later call.
C3_UpsertNeverNulls ==
  [][\A k \in DOMAIN dbRuns :
       /\ k \in DOMAIN dbRuns'
       /\ \A c \in RunColumns : ~IsNull(dbRuns[k], c) => ~IsNull(dbRuns'[k], c)
       /\ (lastOp'.op = "upsert_single_run" /\ k = RunKey(lastOp'.run)
           /\ OnDisk(lastOp'.run).finished_at # NONE)
          => /\ dbRuns'[k].status = OnDisk(lastOp'.run).status
             /\ dbRuns'[k].status # "running"
             /\ dbRuns'[k].finished_at = OnDisk(lastOp'.run).finished_at]_vars


\* the request records parse_run reads from the stream of run r now on disk
RequestsOnDisk(r) == ParseRequests(ProjectOf(r), r, events[r])

\* C4: a later upsert of a request row that carries NULL in a column never
\* overwrites the non-NULL value an earlier upsert stored in that column; only
\* status always takes the latest value.
C4_RequestUpsertCoalesces ==
  [][lastOp'.op = "upsert_single_run" =>
       \A q \in DOMAIN RequestsOnDisk(lastOp'.run) :
         LET k == <<lastOp'.project_id, q>>
             rec == RequestsOnDisk(lastOp'.run)[q]
         IN k \in DOMAIN dbRequests =>
              /\ dbRequests'[k].status = rec.status
              /\ \A c \in RequestColumns \ {"status"} :
                   (~IsNull(dbRequests[k], c) /\ IsNull(rec, c))
                     => dbRequests'[k][c] = dbRequests[k][c]]_vars

\* the events of kind name for request q in the stream of run r
RequestEvents(r, name, q) ==
  {i \in 1..Len(events[r]) : events[r][i].event = name /\ events[r][i].request_id = q}
\* the statuses carried by the request_completed events of q in the streams of R
CompletionStatuses(R, q) ==
  UNION {{events[r][i].status : i \in RequestEvents(r, "request_completed", q)} : r \in R}
\* the status carried by the last request_completed event of q in the stream of r
LastCompletionStatus(r, q) ==
  LET done == RequestEvents(r, "request_completed", q)
  IN events[r][CHOOSE i \in done : \A j \in done : j <= i].status
\* the run directories whose streams the step into the primed state indexed
IndexedRuns ==
  IF lastOp'.op = "upsert_single_run" THEN {r \in {lastOp'.run} : events[r] # <<>>}
  ELSE IF lastOp'.called THEN {r \in RunIds : ProjectOf(r) \in lastOp'.indexed /\ events[r] # <<>>}
  ELSE {}

LastIndexedNaming(p, q) ==
  LET R == {r \in IndexedRuns : ProjectOf(r) = p /\ q \in DOMAIN RequestsOnDisk(r)}
  IN {r \in R : \A x \in R : \E i, j \in 1..Len(RunOrder) :
                  RunOrder[i] = x /\ RunOrder[j] = r /\ i <= j}

RowsOf(t, p) == [k \in {x \in DOMAIN t : x[1] = p} |-> t[k]]
ReindexOps == {"cmd_index", "cmd_serve", "api_refresh", "index_projects"}

\* C6: a reindex of a project list P with cleanup_stale_projects=false never
\* removes a project from the index and leaves the projects, runs and requests
\* rows of every project not in P unchanged; every entry point that reindexes
\* with a project filter passes cleanup_stale_projects=false.
C6_FilteredReindexKeepsOthers ==
  [][lastOp'.op \in ReindexOps =>
       /\ lastOp'.project_id # NULL => ~lastOp'.cleanup
       /\ ~lastOp'.cleanup =>
            /\ DOMAIN dbProjects \subseteq DOMAIN dbProjects'
            /\ \A p \in Projects \ lastOp'.indexed :
                 /\ p \in DOMAIN dbProjects => dbProjects'[p] = dbProjects[p]
                 /\ RowsOf(dbRuns', p) = RowsOf(dbRuns, p)
                 /\ RowsOf(dbRequests', p) = RowsOf(dbRequests, p)]_vars

\* a filtered reindex has run while the index holds a run of a project that
\* is no longer registered
C6_Witness ==
  /\ lastOp.op \in {"cmd_index", "cmd_serve", "api_refresh"}
  /\ lastOp.project_id # NULL /\ lastOp.called
  /\ \E p \in (DOMAIN dbProjects) \ RegistryIds(registry) :
       p # lastOp.project_id /\ DOMAIN RowsOf(dbRuns, p) # {}

\* the run on disk is unfinished and gc's conditions hold for it
GcShouldReap(r) ==
  LET run == OnDisk(r)
  IN /\ events[r] # <<>>
     /\ run.finished_at = NONE
     /\ \/ run.host = LocalHost /\ run.pid # NONE /\ run.pid \notin alive
        \/ run.pid = NONE /\ run.started_at # NONE /\ now - run.started_at > StaleSeconds

\* C7: a run whose process died without writing run_finished stays
\* status='running' in the index until gc(dry_run=false) runs; that gc sets
\* the row to status='failed', exit_code=137 and a non-NULL finished_at
\* whenever the run is on the local host with a recorded dead pid, or has no
\* pid and started more than 7200 s ago.
C7_GcReapsDeadRuns ==
  [][/\ ~(lastOp'.op = "gc" /\ ~lastOp'.dry_run) =>
          \A k \in DOMAIN dbRuns :
            (dbRuns[k].status = "running" /\ OnDisk(k[2])'.finished_at = NONE)
              => (k \in DOMAIN dbRuns' /\ dbRuns'[k].status = "running")
     /\ (lastOp'.op = "gc" /\ ~lastOp'.dry_run) =>
          \A r \in RunIds :
            GcShouldReap(r) =>
              /\ RunKey(r) \in DOMAIN dbRuns'
              /\ dbRuns'[RunKey(r)].status = "failed"
              /\ dbRuns'[RunKey(r)].exit_code = 137
              /\ dbRuns'[RunKey(r)].finished_at # NONE]_vars

\* gc(dry_run=false) has just reaped a local run whose recorded pid is dead
C7_Witness ==
  /\ lastOp.op = "gc" /\ ~lastOp.dry_run
  /\ \E e \in lastOp.stale_runs :
       /\ e.reason = "pid_dead"
       /\ dbRuns[<<e.project_id, e.run_id>>].status = "failed"
       /\ dbRuns[<<e.project_id, e.run_id>>].exit_code = 137
       /\ GcShouldReap(e.run_id)

C9_CrashLeavesOldOrNew ==
  \A f \in StateFiles :
    saved[f].crashed =>
      /\ Content(disk[f]) # Corrupt
      /\ Content(disk[f]) \in {saved[f].before, saved[f].doc}

\* the call of run() is over: it returned or it raised
Finished(c) == call[c].pc \in {"returned", "raised"}

C11_SpecSingleFlight ==
  (\A c \in Calls : ~call[c].allow_duplicate) =>
    \A i, j \in LiveInstances :
      (i # j /\ instances[i].spec # NULL) => instances[i].spec # instances[j].spec


\* the instances ever launched for run_id r
LaunchedFor(r) == {i \in 1..Len(instances) : instances[i].run_id = r}

\* a provision() call that finds a live instance of its run_id returns that
\* instance's id and launches nothing
ReturnsExisting ==
  \A p \in Provisioners :
    (prov[p].pc = "find" /\ prov'[p].pc # "find" /\ find_existing_instance(prov[p].run_id) # {})
      => /\ prov'[p].pc = "returned"
         /\ prov'[p].result \in find_existing_instance(prov[p].run_id)
         /\ instances' = instances

\* C12: for any run_id, a provision call made while an instance for that
\* run_id is live returns that existing instance's id and launches nothing, so
\* over any sequence of provision calls (including the spot-to-on-demand
\* retry) at most one instance is launched per run_id.
C12_OneInstancePerRunId ==
  [][/\ ReturnsExisting
     /\ \A r \in Calls : Cardinality(LaunchedFor(r)') <= 1]_vars

\* C12 (amended): a provision call that finds a live instance of its run_id
\* returns that instance's id and launches nothing, and no provision call
\* (the spot-to-on-demand retry included) launches an instance for a run_id
\* whose client token EC2 still remembers: at most one instance is launched
\* per run_id within the token's dedup window.
C12_OneInstancePerRunIdToken ==
  [][/\ ReturnsExisting
     /\ \A r \in Calls :
          LaunchedFor(r)' # LaunchedFor(r) =>
            /\ r \notin ec2Tokens
            /\ Cardinality(LaunchedFor(r)') = Cardinality(LaunchedFor(r)) + 1]_vars

\* a second provision call for a run_id has returned the instance the first
\* one launched through the on-demand retry
C12_Witness ==
  \E p, q \in Provisioners :
    /\ p # q
    /\ prov[p].pc = "returned" /\ prov[q].pc = "returned"
    /\ prov[p].run_id = prov[q].run_id
    /\ prov[p].result = prov[q].result
    /\ prov[p].on_demand_retry
    /\ Cardinality(LaunchedFor(prov[p].run_id)) = 1


\* C13: if run() fails at any step after an instance has been provisioned for
\* it, backend.terminate is invoked on that instance before the error
\* propagates to the caller: a failed run() never returns leaving its own
\* provisioned instance without a termination attempt.
C13_FailedRunTerminatesInstance ==
  \A c \in Calls :
    (call[c].pc = "raised" /\ call[c].instance_id # NONE) => call[c].terminate_called


\* C14: whenever a cloud run reaches completion or is successfully terminated
\* (in attached mode, in detached mode observed through poll_status, or
\* through terminate_run) its entry is removed from the project's cloud
\* state: no run whose global status is completed or terminated remains in
\* the project's active_runs.
C14_FinishedRunsLeaveProjectState ==
  \A c \in Calls :
    runState[c].status \in {"completed", "terminated"} => c \notin projectState


\* the instances a reap() step enumerates whose age exceeds their own
\* max-hours tag or the hard ceiling of the call
Overdue(hard_ceiling_hours) ==
  {i \in LiveInstances :
     \/ instances[i].max_hours # NONE /\ hour - instances[i].launched_at > instances[i].max_hours
     \/ hour - instances[i].launched_at > hard_ceiling_hours}

C16_DryRunReapsNothing ==
  [][(reaps' # reaps /\ reapLog'.dry_run) =>
       LET real == reap(FALSE, reapLog'.hard_ceiling_hours, reapLog'.project_root)
       IN /\ instances' = instances
          /\ projectState' = projectState
          /\ \A row \in reapLog'.actions : row.action = "would_terminate"
          /\ {row.instance_id : row \in reapLog'.actions}
               = {i \in LiveInstances : real.instances[i].state = "terminated"}]_vars

\* a dry run of reap() listed an instance and left another one out
C16_Witness ==
  /\ reaps > 0 /\ reapLog.dry_run
  /\ reapLog.actions # {}
  /\ \E i \in LiveInstances : \E row \in reapLog.actions :
       row.instance_id # i /\ instances[row.instance_id].state = "running"


\* the cost the guard estimates for the specs of the batch: the sum of the
\* costs of the specs that have a compute profile
EstimatedCost ==
  LET cost_of(spec) == IF spec \in batch.specs /\ batch.cost[spec] # NONE
                       THEN batch.cost[spec] ELSE 0
  IN cost_of("specs/a.md") + cost_of("specs/b.md")

CountGuardViolated == Cardinality(batch.specs) > batch.max_instances
CostGuardViolated == batch.max_cost # NONE /\ EstimatedCost > batch.max_cost

\* C17: launch_batch fails with a guard error before any provisioning side
\* effect (no remote.run call, no instance launched, no batch state written)
\* whenever len(specs) > max_instances or the estimated total cost of the
\* specs exceeds max_cost.
C17_GuardsFailBeforeSideEffects ==
  (batch.pc # "idle" /\ (CountGuardViolated \/ CostGuardViolated)) =>
    /\ batch.pc = "raised" /\ batch.raised = "ValueError"
    /\ batch.run_calls = 0
    /\ instances = <<>>
    /\ projectState = {}
    /\ \A c \in Calls : runState[c] = NoRunState
    /\ batchFile = NoBatchFile

\* a batch within max_instances was refused by the cost guard
C17_Witness ==
  /\ batch.pc = "raised"
  /\ batch.specs # {}
  /\ ~CountGuardViolated
  /\ CostGuardViolated

\* the lifecycle statuses after which a run no longer changes
TerminalLifecycle == {"completed", "failed", "error", "terminated", "terminated_no_results"}

C21_BatchRunsCarryBatchId ==
  (batch.last_call # NULL /\ batch.raised # "RunError") =>
    LET c == RunOfSpec(batch.last_call)
    IN /\ runState[c].status # NULL
       /\ c \in projectState
       /\ "batch_id" \in run_state_keys
       /\ "batch_id" \in register_run_keys


\* the instance recorded for run c is terminated, stopped or shutting down
InstanceGone(c) ==
  runState[c].instance_id # NONE /\ instances[runState[c].instance_id].state # "running"

\* the step ends the grace-period check of run c's attached poll loop without
\* an error, with no exit_code marker in S3
GraceStep(c) ==
  call[c].pc = "grace" /\ call'[c].pc = "retrieve" /\ exitCodes[c] = NONE

\* the step is the one that saves the final status of run c's attached poll
RetrieveStep(c) == call[c].pc = "retrieve" /\ call'[c].pc # "retrieve"

\* the step is a poll_status call on run c that changes its saved state
PollStatusStep(c) ==
  /\ call' = call /\ instances' = instances /\ exitCodes' = exitCodes
  /\ runState'[c] # runState[c]
  /\ runState'[c].status # "terminated"

\* the attached poll loop finalizes a lost instance as exit code 1, failed
AttachedLossIsFailure ==
  \A c \in Calls :
    /\ GraceStep(c) => call'[c].exit_code = 1
    /\ (RetrieveStep(c) /\ call[c].via_grace /\ call[c].exit_code = 1) =>
         runState'[c].exit_code = 1 /\ runState'[c].status = "failed"

Answers == {exchange.http, exchange.stdio}

\* bytes of the text a structuredContent carries, JSON punctuation not counted
StructuredBytes(answer) == byte_len(encode_replace(answer.structured))

TextBytes(answer) == byte_len(encode_replace(answer.text))

\* C23: on either transport, the content text and the structuredContent of
\* the result of a tools/call each take at most max_output_bytes bytes
C23_ToolResultWithinOutputCap ==
  \A answer \in Answers :
    answer.state = "written" /\ "content" \in answer.result_keys =>
      /\ TextBytes(answer) <= exchange.max_output_bytes
      /\ StructuredBytes(answer) <= exchange.max_output_bytes

\* the request was posted to /mcp and the HTTP server is done with it
Posted == exchange.sent /\ exchange.request.path = "/mcp" /\ exchange.http.state # "pending"

\* C24: a POST to /mcp whose Authorization header is not "Bearer <token>" is
\* answered 401, and _dispatch_jsonrpc and call_tool run for no such request
C24_UnauthorizedIsNeverDispatched ==
  Posted /\ exchange.request.auth # ExpectedAuth =>
    /\ exchange.http.state = "written" /\ exchange.http.status = 401
    /\ ~exchange.http.dispatched /\ ~exchange.http.called

\* a tools/call that would run a tool was posted with a wrong token and
\* answered 401
C24_Witness ==
  /\ Posted /\ ReachesTool(exchange.request)
  /\ exchange.request.auth = "Bearer bad"
  /\ exchange.http.status = 401

\* the authorized POST of a JSON object was handled
PostedObject ==
  Posted /\ exchange.request.auth = ExpectedAuth /\ exchange.request.body = "object"

\* C25: an authorized POST of a JSON object to /mcp is answered 200 with an
\* envelope that has exactly one of result and error; MCPToolError gives a
\* result with isError, ValueError error -32602, an unknown method error
\* -32601, any other exception error -32000; no exception escapes do_POST
C25_EveryObjectGetsAnEnvelope ==
  PostedObject =>
    LET answer == exchange.http
        request == exchange.request
        outcome == call_tool(request.name, exchange.behaviour)
        raised(kind) == ReachesTool(request) /\ outcome.kind = kind
    IN  /\ answer.state = "written" /\ answer.status = 200
        /\ Cardinality(answer.keys \cap {"result", "error"}) = 1
        /\ raised("MCPToolError") => "isError" \in answer.result_keys
        /\ raised("ValueError") => answer.code = ErrorCode(32602)
        /\ raised("Exception") => answer.code = ErrorCode(32000)
        /\ request.method = "nope" /\ request.params # "array" =>
             answer.code = ErrorCode(32601)

\* both transports give the same JSON-RPC answer
SameAnswer(a, b) ==
  /\ a.state = "written" /\ b.state = "written"
  /\ a.keys = b.keys /\ a.result_keys = b.result_keys /\ a.code = b.code
  /\ a.id = b.id /\ a.text = b.text /\ a.structured = b.structured

\* C26: the HTTP server and the stdio server give the same result or the
\* same error code for the same request object, and the stdio loop goes on
\* reading requests
C26_TransportsAgree ==
  /\ stdioServing
  /\ PostedObject /\ exchange.stdio.state # "pending" =>
       SameAnswer(exchange.http, exchange.stdio)

\* thread t is running a tool that writes run state or uses the database
InDatabase(t) ==
  /\ thread[t].name \in DatabaseTools
  /\ thread[t].pc \in {"body", "gc_mark"}

\* C27: a thread that runs a legacy tool, a dashboard query or kit.gc holds
\* the facade lock, so no two threads run such tools at the same time
C27_DatabaseToolsHoldTheLock ==
  /\ \A t \in Threads : InDatabase(t) => lock = t
  /\ \A t, u \in Threads : InDatabase(t) /\ InDatabase(u) => t = u

\* thread t has returned from a fire-and-forget tool whose arguments were valid
Launched(t) ==
  /\ thread[t].pc = "done" /\ thread[t].name \in FireAndForgetTools
  /\ thread[t].valid

\* C28: a fire-and-forget tool returns status launched with the run_id of the
\* child it started, while the child is still running, and the thread has
\* neither waited for nor taken the facade lock
C28_LaunchNeitherWaitsNorLocks ==
  \A t \in Threads :
    /\ Launched(t) =>
         /\ thread[t].result = "launched" /\ thread[t].raised = NULL
         /\ thread[t].run_id \in LaunchIds /\ thread[t].seen.state = "running"
         /\ ~thread[t].held
    /\ thread[t].pc = "enter" /\ thread[t].name \in FireAndForgetTools => Ready(t)

\* a launch returned while another thread was inside the with block
C28_Witness ==
  \E t \in Threads :
    /\ Launched(t) /\ thread[t].result = "launched"
    /\ thread[t].lock_seen \in Threads \ {t}
    /\ background[thread[t].run_id].state = "running"

\* thread t has returned from kit.kill called with a signal kit.kill accepts
Killed(t) ==
  /\ thread[t].pc = "done" /\ thread[t].name = "kit.kill"
  /\ thread[t].signal \in {"SIGTERM", "SIGKILL"}

\* C29: kit.kill of a run whose child has exited returns already_finished
\* with the child's exit code, raises nothing and sends no signal; kit.kill
\* of a run_id the facade never launched raises MCPToolError
C29_KillOfFinishedOrUnknownRun ==
  \A t \in Threads :
    Killed(t) =>
      /\ thread[t].seen.state = "exited" =>
           /\ thread[t].result = "already_finished" /\ thread[t].raised = NULL
           /\ thread[t].exit_code = thread[t].seen.exit_code
           /\ ~thread[t].sent
      /\ thread[t].seen.state = "absent" =>
           /\ thread[t].raised = "MCPToolError" /\ thread[t].result = NULL
           /\ ~thread[t].sent

\* kit.kill was called for a child that had exited with code 1 and that no
\* kit.kill had signalled
C29_Witness ==
  \E t \in Threads :
    /\ Killed(t) /\ thread[t].seen.state = "exited" /\ thread[t].seen.exit_code = 1
    /\ thread[t].result = "already_finished"
    /\ thread[t].run_id \notin signals

\* number of entries of the registry file with the project_id
EntryCount(reg, p) == Cardinality({i \in 1..Len(reg) : reg[i].project_id = p})

\* the step is the call upsert_registry_project for p
UpsertStep(p) == lastOp'.op = "register" /\ lastOp'.project_id = p

\* the step is the call remove_registry_project(p)
RemoveStep(p) == lastOp'.op = "unregister" /\ lastOp'.project_id = p

\* C30: the registry file never holds two entries with one project_id; an
\* upsert leaves exactly one entry for its project, a remove leaves none, and
\* no call takes away the entry of a project it does not remove, so that the
\* file holds one entry for each project registered and not since removed
C30_OneEntryPerRegisteredProject ==
  [][\A p \in Projects :
       /\ EntryCount(registry', p) <= 1
       /\ UpsertStep(p) => EntryCount(registry', p) = 1
       /\ RemoveStep(p) => EntryCount(registry', p) = 0
       /\ EntryCount(registry, p) = 1 /\ ~RemoveStep(p) => EntryCount(registry', p) = 1]_vars

\* C31: every process launched by _launch_background is in a session of its
\* own, and none has received a signal sent to the server's session
C31_LaunchedProcessesHaveOwnSession ==
  \A run_id \in LaunchIds :
    background[run_id].state # "absent" =>
      /\ background[run_id].session = "own"
      /\ ~background[run_id].group_signalled

\* C32: whatever the parent_run_id relation, a call of _root_for_run makes at
\* most one iteration per run of the project plus one, and the thread that
\* run_detail_payload returns contains the run it was asked for
C32_ThreadExpansionTerminates ==
  /\ detail.iterations <= Len(ThreadRuns) + 1
  /\ detail.pc = "done" =>
       /\ detail.run_id \in detail.thread_runs
       /\ detail.root \in ThreadRunIds

\* the thread of a run on a parent cycle of two runs, with a third run that
\* points into the cycle, was returned
C32_Witness ==
  /\ detail.pc = "done"
  /\ \E r, q \in ThreadRunIds :
       /\ r # q /\ detail.parents[r] = q /\ detail.parents[q] = r
       /\ detail.run_id \in ThreadRunIds \ {r, q}
       /\ detail.parents[detail.run_id] = r

\* the run record folded from the first n events of run r
FoldedPrefix(r, n) == FoldRun(InitialRun(ProjectOf(r), r), SubSeq(events[r], 1, n))

\* the fields of a run that the run_started branch assigns, other than
\* parent_run_id and the timestamp
StartedTextFields == {"kit", "host"}

\* C33: folding a run_started event assigns parent_run_id, kit, host, pid and
\* started_at from the event where the event carries them, and leaves each
\* of them as folded from the earlier events where it does not
C33_RunStartedKeepsAbsentFields ==
  \A r \in RunIds : \A n \in 1..Len(events[r]) :
    LET e == events[r][n]
        before == FoldedPrefix(r, n - 1)
        after == FoldedPrefix(r, n)
    IN  e.event = "run_started" =>
          /\ after.parent_run_id = Keep(e.parent_run_id, before.parent_run_id)
          /\ \A f \in StartedTextFields : after[f] = Keep(e[f], before[f])
          /\ after.pid = KeepInt(e.pid, before.pid)
          /\ after.started_at = KeepInt(e.ts, before.started_at)

\* C34: the UPDATE of kit.gc changes no row that holds a finished run: a row
\* that upsert_single_run has set to ok or failed since the SELECT keeps its
\* status, its exit code and its finished_at
C34_GcSparesFinishedRows ==
  [][lastOp'.op = "gc_update" =>
       \A k \in DOMAIN dbRuns :
         dbRuns[k].status \in {"ok", "failed"} => dbRuns'[k] = dbRuns[k]]_vars

\* the row of key k is failed although the events of its run hold no
\* run_finished: kit.gc has marked it
MarkedByGc(k) ==
  /\ dbRuns[k].status = "failed" /\ dbRuns[k].exit_code = ReapedExitCode
  /\ OnDisk(k[2]).finished_at = NONE

\* C35: a row that kit.gc has marked failed stays failed with finished_at
\* set through every reindex, upsert_single_run and gc, as long as no event
\* is appended to its run
C35_GcResultSurvivesReindex ==
  [][\A k \in DOMAIN dbRuns :
       MarkedByGc(k) /\ events'[k[2]] = events[k[2]] =>
         /\ k \in DOMAIN dbRuns'
         /\ dbRuns'[k].status = "failed"
         /\ dbRuns'[k].finished_at # NONE]_vars

\* the runs row of r that a full reindex of the present files commits
FullReindexRow(r) ==
  index_projects(Db, <<[project_id |-> ProjectOf(r), label |-> "a"]>>, FALSE).runs[RunKey(r)]

\* C36: when upsert_single_run has run after each append to the stream of r1,
\* the runs row it leaves equals, column for column, the row that a full
\* reindex of the same stream produces
C36_IncrementalEqualsFullReindex ==
  lastOp.op = "upsert_single_run" /\ events["r1"] # <<>> =>
    /\ RunKey("r1") \in DOMAIN dbRuns
    /\ dbRuns[RunKey("r1")] = FullReindexRow("r1")

\* C37: a call of run() that the duplicate check rejected ends with the saved
\* status blocked_duplicate, and the rejection terminates no instance
C37_RejectedRunEndsBlockedDuplicate ==
  \A c \in Calls :
    call[c].pc = "raised" /\ call[c].raised = "DuplicateSpecError" =>
      /\ runState[c].status = "blocked_duplicate"
      /\ ~call[c].terminate_called
      /\ runState[c].instance_id = NONE

\* the statuses a finished cloud run is saved with
TerminalStatuses == {"completed", "failed", "terminated", "terminated_no_results"}

\* C38: a step of poll_status, terminate_run or gc_stale_runs (the steps that
\* leave every call of run() where it is) never changes a saved status that
\* is completed, failed, terminated or terminated_no_results
C38_TerminalStatusIsAbsorbing ==
  [][\A c \in Calls :
       runState[c].status \in TerminalStatuses /\ call' = call =>
         runState'[c].status = runState[c].status]_vars

C40_PollLoopEndsByMaxHours ==
  \A c \in Calls :
    call[c].pc = "poll" => call[c].hours <= instances[call[c].instance_id].max_hours + 1

====
